---- MODULE Spec2Model ----
(***************************************************************************)
(* The realtime collaboration client of exo-alt: the Connection Manager    *)
(* (src/lib/realtime/RealtimeClient.ts) as a state machine.                *)
(*                                                                         *)
(* The client's fields are the variables below.  The host environment is   *)
(* modelled beside them: every WebSocket the client constructed with its   *)
(* readyState and what was transmitted on it, and the timeouts and         *)
(* intervals that are pending in the host's timer table.  Each method of   *)
(* the class is an operator from a client record to a client record, and   *)
(* each action is one host task: a caller's call or one callback, run to   *)
(* completion together with the promise continuations it releases (the     *)
(* microtasks run before the next task).  What a task transmits is its    *)
(* output, out; a socket remembers only whether a join went out on it,    *)
(* whether close() was called on it, and whether it was constructed while  *)
(* the socket it replaced in this.ws was still connecting or open.         *)
(* Wall-clock values (joinedAt, lastSeen, the heartbeat's ts) are left     *)
(* out.                                                                    *)
(*                                                                         *)
(* The Projection Layer (RealtimeProvider) is the record provider: its     *)
(* React state and refs.  Its listeners and subscribers are callbacks      *)
(* registered with the client, and run inside the client's loops.          *)
(***************************************************************************)
EXTENDS Integers, Sequences, FiniteSets, TLC

\* ---------------------------------------------------------------- bounds
\* openSocket() calls in one run of Spec
MaxSockets == 2
\* a caller or the heartbeat adds a message only to a queue shorter than this
MaxQueue == 1
\* openSocket() calls in one run of SpecLifecycle
MaxLifecycle == 3
\* openSocket() calls in one run of SpecBackoff
MaxRetries == 6
\* sockets that fail (the constructor raises, or the socket closes) in one
\* run of SpecLive
MaxFailures == 2
\* openSocket() calls in one run of SpecDispatch
MaxDispatch == 2
\* openSocket() calls in one run of SpecEvents
MaxEvents == 2
\* openSocket() calls in one run of SpecProvider
MaxProvider == 3
\* openSocket() calls in one run of SpecSelection
MaxSelection == 1
\* openSocket() calls of one client in one run of SpecIdentity
MaxIdentity == 2
\* the clock of the server stops here, in ms
MaxClock == 105000
\* openSocket() calls in one run of SpecEmit
MaxEmit == 2
\* predict() calls in one run of SpecClassifier
MaxPredict == 3
\* calculateCorrelations() calls in one run of SpecCorrelation
MaxCalls == 2
\* progress messages of the worker for one request
MaxProgress == 2
\* failures of ensureModelsLoaded() in one run of SpecClassifier
MaxLoadFails == 1

\* ------------------------------------------------------- program constants
HEARTBEAT_INTERVAL_MS == 30000
RECONNECT_BASE_DELAY_MS == 1000
RECONNECT_MAX_DELAY_MS == 15000
\* the grace period of the Presence & Liveness Tracker
GRACE_PERIOD_MS == 90000

VARIABLES
  roomId,            \* this.roomId ("" is null)
  user,              \* this.user (NoUser is null)
  storage,           \* the Storage collaborator: exo-user-id, -name, -color
  ws,                \* this.ws: index into sockets, 0 is null
  sockets,           \* one entry per openSocket() call, in call order
  messageQueue,      \* this.messageQueue
  heartbeatTimer,    \* this.heartbeatTimer: an interval handle, 0 is null
  intervals,         \* host: interval handles that are active
  reconnectTimer,    \* this.reconnectTimer: a timeout handle, 0 is null
  timers,            \* host: timeout handles that are pending
  reconnectAttempts, \* this.reconnectAttempts
  delays,            \* history: the setTimeout delays since the last open
  cut,               \* history: Len(delays) at the last disconnect()
  out,               \* host: what the last task transmitted, in order
  threw,             \* host: a transmit of the last task raised
  disconnected,      \* history: disconnect() was the last lifecycle call
  lastOp,            \* history: the task that produced this state
  handlers,          \* this.handlers: tag -> subscribers, in insertion order
  eventHandlers,     \* this.eventHandlers: event -> listeners, in insertion order
  invoked,           \* host: the callbacks the last task called, in order
  received,          \* history: the payload the last task was given
  provider,          \* RealtimeProvider: its state and refs
  returned,          \* host: what the last call returned ("" is void)
  released,          \* history: <<tag, h>> whose unsubscribe function was
                     \* called, and that was not subscribed again since
  server,            \* the Room Coordinator: the state of room R1, what its
                     \* last task was given and what it sent
  filters,           \* filters.ts and memoizedFilters.ts: mlCache, filterCache,
                     \* the predictions under way, the last call and its result
  classifier,        \* mlClassifier.ts: loadedVersion, predictionCache,
                     \* inFlight, the predictSingle promises under way
  correlation        \* useCorrelationWorker: workerRef, pendingRef, the
                     \* timeouts, the promises it returned, and the worker
                     \* with the messages in flight both ways

vars == <<roomId, user, storage, ws, sockets, messageQueue, heartbeatTimer,
          intervals, reconnectTimer, timers, reconnectAttempts, delays, cut,
          out, threw, disconnected, lastOp, handlers, eventHandlers, invoked,
          received, provider, returned, released, server, filters,
          classifier, correlation>>

\* ------------------------------------------------------------------ values
NoUser == [id |-> "", name |-> "", color |-> "", selectedPlanetId |-> "",
           isViewingPlanet |-> ""]

NoMsg == [type |-> "", roomId |-> "", user |-> NoUser, userId |-> "",
          planetId |-> "", camera |-> ""]

JoinMsg(r, u) == [NoMsg EXCEPT !.type = "join", !.roomId = r, !.user = u]

HeartbeatMsg(uid) == [NoMsg EXCEPT !.type = "heartbeat", !.userId = uid]

PlanetMsg(t, p, uid) == [NoMsg EXCEPT !.type = t, !.planetId = p, !.userId = uid]

CameraMsg(p, cam, uid) ==
  [NoMsg EXCEPT !.type = "camera", !.planetId = p, !.camera = cam, !.userId = uid]

\* JSON.stringify(message): the text handed to the transport
Serialize(m) == <<"json", m>>

\* a Map or a Record with no entry
EmptyMap == [k \in {} |-> <<>>]

\* Map.set(k, v)
MapSet(m, k, v) == [x \in DOMAIN m \cup {k} |-> IF x = k THEN v ELSE m[x]]

\* Map.delete(k)
MapDelete(m, k) == [x \in DOMAIN m \ {k} |-> m[x]]

\* Map.get(k) || d
MapGet(m, k, d) == IF k \in DOMAIN m THEN m[k] ELSE d

\* a server message; the fields a tag does not have are empty
NoServerMsg == [type |-> "", planetId |-> "", lockedBy |-> "", reason |-> "",
                selected |-> EmptyMap, users |-> <<>>, userId |-> "",
                camera |-> "", cameras |-> EmptyMap, message |-> ""]

ConflictMsg(p, by, why) ==
  [NoServerMsg EXCEPT !.type = "conflict", !.planetId = p, !.lockedBy = by,
                      !.reason = why]

SelectionStateMsg(sel) ==
  [NoServerMsg EXCEPT !.type = "selection_state", !.selected = sel]

PresenceMsg(us) == [NoServerMsg EXCEPT !.type = "presence", !.users = us]

\* the tags of RealtimeServerMessage
Tags == {"presence", "conflict", "ack", "error", "selection_state",
         "viewer_cameras", "camera"}

AckMsg == [NoServerMsg EXCEPT !.type = "ack"]

\* error{ok: false, message}
ErrorMsg(text) == [NoServerMsg EXCEPT !.type = "error", !.message = text]

CameraUpdate(p, cam, uid) ==
  [NoServerMsg EXCEPT !.type = "camera", !.planetId = p, !.camera = cam,
                      !.userId = uid]

ViewerCamerasMsg(p, cams) ==
  [NoServerMsg EXCEPT !.type = "viewer_cameras", !.planetId = p, !.cameras = cams]

\* the lifecycle events of on()
Events == {"connected", "disconnected", "error"}

\* ev.data of a message event: <<"json", v>> is the text of the object v,
\* <<"null", v>> the text of a value that has no properties (null), and
\* <<"text", v>> a text that is not JSON
NoData == <<"", NoServerMsg>>

\* the callbacks RealtimeProvider registers: its listeners and subscribers
ProviderListeners == [connected |-> "offConnected",
                      disconnected |-> "offDisconnected",
                      error |-> "offError"]

ProviderSubscribers == [presence |-> "unsubPresence",
                        selection_state |-> "unsubSelection",
                        error |-> "unsubError",
                        ack |-> "unsubAck",
                        camera |-> "unsubCamera",
                        viewer_cameras |-> "unsubViewerCameras",
                        conflict |-> "unsubConflict"]

\* a ConflictInfo, and lastConflict when it is null
NoConflict == [planetId |-> "", lockedBy |-> "", reason |-> ""]

\* RealtimeProvider before its effect has run; optimistic is history: the
\* planets that selectPlanet added the user to, and that were not
\* unselected, rolled back or replaced by a selection_state since;
\* withdrawn is history: the planets that unselectPlanet was called for,
\* and selectPlanet was not called for since
NoProvider == [clientRef |-> FALSE, mounted |-> FALSE, isConnected |-> FALSE,
               currentUser |-> NoUser, peers |-> <<>>, connectionError |-> "",
               selectedPlanets |-> EmptyMap, camerasInPlanet |-> EmptyMap,
               lastConflict |-> NoConflict, lastSelectAttemptRef |-> "",
               optimistic |-> {}, withdrawn |-> {}]

Min(a, b) == IF a <= b THEN a ELSE b

\* the host's next free timer handle
NewHandle(S) == CHOOSE h \in 1..(Cardinality(S) + 1) :
                  h \notin S /\ \A k \in 1..(h - 1) : k \in S

\* the client and its host as one record
\* ------------------------------------------------------ the Room Coordinator
\* the planets of the room; no message was received yet
RoomPlanets == {"p1", "p2"}

NoReq == [conn |-> "", msg |-> NoMsg]

\* no room: no member, no connection that joined, nothing selected, no
\* viewer; exclusive is the lock mode the server is configured with
Room(exclusive) ==
  [exclusive |-> exclusive, members |-> <<>>, joined |-> {},
   selected |-> [p \in RoomPlanets |-> <<>>],
   camerasInPlanet |-> [p \in RoomPlanets |-> EmptyMap],
   now |-> 0, present |-> {}, req |-> NoReq, sent |-> <<>>]

NoRoom == Room(FALSE)

\* ------------------------------------------------ filters, memoizedFilters
\* the Planet records of the regression test, and one without pl_eqt:
\* pl_rade and pl_insol in tenths, pl_eqt in K; a field that is null or
\* undefined is left out of the record
PlanetData ==
  [A |-> [pl_name |-> "A", pl_rade |-> 10, pl_insol |-> 10, pl_eqt |-> 255],
   B |-> [pl_name |-> "B", pl_rade |-> 25, pl_insol |-> 30, pl_eqt |-> 800],
   C |-> [pl_name |-> "C", pl_rade |-> 9, pl_insol |-> 8, pl_eqt |-> 260],
   D |-> [pl_name |-> "D", pl_rade |-> 12, pl_insol |-> 15]]

\* the Planet[] objects of the callers: the key is the identity of the array
PlanetLists == [l1 |-> <<"A", "B", "C">>, l2 |-> <<"C", "D", "A">>]

\* Math.round(res.earthLike * 100) of the predictions the model may make
MlScores == {20, 95}

NoCall == [fn |-> "", list |-> ""]

\* nothing cached, no prediction under way, nothing called
NoFilters ==
  [mlCache |-> EmptyMap, pending |-> {}, filterCache |-> EmptyMap,
   call |-> NoCall, result |-> <<>>]

\* ------------------------------------------------------------ mlClassifier
MODEL_VERSION == "1.0.0"

\* mlClassifier.ts after import, and the version of the manifest that
\* ensureModelsLoaded will fetch ("" is a manifest without a version)
NoClassifier(manifest) ==
  [manifest |-> manifest, loadedVersion |-> "", predictionCache |-> {},
   inFlight |-> {}, promises |-> <<>>, calls |-> 0, earthPredicts |-> 0,
   weirdPredicts |-> 0, loadFails |-> 0, cleared |-> FALSE, returned |-> ""]

\* ---------------------------------------------------- useCorrelationWorker
\* the ids calculateCorrelations draws: one per call
RequestIds == 1..MaxCalls

\* useCorrelationWorker before its effect has run, and a worker that was
\* not created
NoCorrelation ==
  [effect |-> "none", workerRef |-> FALSE, attempts |-> 0, retry |-> FALSE,
   pendingRef |-> {}, timeouts |-> {}, error |-> "",
   promise |-> [id \in RequestIds |-> "none"],
   by |-> [id \in RequestIds |-> ""],
   requests |-> <<>>, responses |-> <<>>]

This == [roomId |-> roomId, user |-> user, storage |-> storage, ws |-> ws,
         sockets |-> sockets, messageQueue |-> messageQueue,
         heartbeatTimer |-> heartbeatTimer, intervals |-> intervals,
         reconnectTimer |-> reconnectTimer, timers |-> timers,
         reconnectAttempts |-> reconnectAttempts, delays |-> delays,
         cut |-> cut, out |-> <<>>, threw |-> FALSE,
         handlers |-> handlers, eventHandlers |-> eventHandlers,
         invoked |-> <<>>, received |-> NoData, provider |-> provider,
         returned |-> "", released |-> released]

Commit(c) ==
  /\ roomId' = c.roomId
  /\ user' = c.user
  /\ storage' = c.storage
  /\ ws' = c.ws
  /\ sockets' = c.sockets
  /\ messageQueue' = c.messageQueue
  /\ heartbeatTimer' = c.heartbeatTimer
  /\ intervals' = c.intervals
  /\ reconnectTimer' = c.reconnectTimer
  /\ timers' = c.timers
  /\ reconnectAttempts' = c.reconnectAttempts
  /\ delays' = c.delays
  /\ cut' = c.cut
  /\ out' = c.out
  /\ threw' = c.threw
  /\ handlers' = c.handlers
  /\ eventHandlers' = c.eventHandlers
  /\ invoked' = c.invoked
  /\ received' = c.received
  /\ provider' = c.provider
  /\ returned' = c.returned
  /\ released' = c.released
  /\ UNCHANGED <<server, filters, classifier, correlation>>

\* ----------------------------------------------------------------- methods
isConnected(c) == c.ws # 0 /\ c.sockets[c.ws].readyState = "open"

\* mutant: a transmit that raises is swallowed without queueing
sendDropsOnThrow(c, m, throws) ==
  IF ~isConnected(c) \/ c.ws = 0
  THEN [c EXCEPT !.messageQueue = Append(@, m)]
  ELSE IF throws
       THEN [c EXCEPT !.threw = TRUE]
       ELSE [c EXCEPT !.out = Append(@, [sock |-> c.ws, data |-> Serialize(m)]),
                      !.sockets[c.ws].joined = @ \/ m.type = "join"]

\* send(message); throws: this.ws.send raises
send(c, m, throws) ==
  IF ~isConnected(c) \/ c.ws = 0
  THEN [c EXCEPT !.messageQueue = Append(@, m)]
  ELSE IF throws
       THEN [c EXCEPT !.messageQueue = Append(@, m), !.threw = TRUE]
       ELSE [c EXCEPT !.out = Append(@, [sock |-> c.ws, data |-> Serialize(m)]),
                      !.sockets[c.ws].joined = @ \/ m.type = "join"]

stopHeartbeat(c) ==
  IF c.heartbeatTimer # 0
  THEN [c EXCEPT !.intervals = @ \ {c.heartbeatTimer}, !.heartbeatTimer = 0]
  ELSE c

startHeartbeat(c) ==
  LET c1 == stopHeartbeat(c)
      h == NewHandle(c1.intervals)
  IN [c1 EXCEPT !.heartbeatTimer = h, !.intervals = @ \cup {h}]

\* mutant: the attempt counter is incremented before it is read
scheduleReconnectPreIncrement(c) ==
  LET c1 == stopHeartbeat(c)
      attempt == c1.reconnectAttempts + 1
      delay == Min(RECONNECT_BASE_DELAY_MS * (2 ^ attempt), RECONNECT_MAX_DELAY_MS)
      h == NewHandle(c1.timers)
  IN IF c1.reconnectTimer # 0
     THEN c1
     ELSE [c1 EXCEPT !.reconnectAttempts = attempt,
                     !.reconnectTimer = h,
                     !.timers = @ \cup {h},
                     !.delays = Append(@, delay)]

\* mutant: no check for a timer that is already pending
scheduleReconnectNoGuard(c) ==
  LET c1 == stopHeartbeat(c)
      attempt == c1.reconnectAttempts
      delay == Min(RECONNECT_BASE_DELAY_MS * (2 ^ attempt), RECONNECT_MAX_DELAY_MS)
      h == NewHandle(c1.timers)
  IN [c1 EXCEPT !.reconnectAttempts = attempt + 1,
                !.reconnectTimer = h,
                !.timers = @ \cup {h},
                !.delays = Append(@, delay)]

\* scheduleReconnect(): the delay it computes and the timeout it arms
scheduleReconnect(c) ==
  LET c1 == stopHeartbeat(c)
      attempt == c1.reconnectAttempts
      delay == Min(RECONNECT_BASE_DELAY_MS * (2 ^ attempt), RECONNECT_MAX_DELAY_MS)
      h == NewHandle(c1.timers)
  IN IF c1.reconnectTimer # 0
     THEN c1
     ELSE [c1 EXCEPT !.reconnectAttempts = attempt + 1,
                     !.reconnectTimer = h,
                     !.timers = @ \cup {h},
                     !.delays = Append(@, delay)]

\* mutant: the attempt counter survives
clearReconnectKeepsAttempts(c) ==
  IF c.reconnectTimer # 0
  THEN [c EXCEPT !.timers = @ \ {c.reconnectTimer}, !.reconnectTimer = 0]
  ELSE c

clearReconnect(c) ==
  LET c1 == IF c.reconnectTimer # 0
            THEN [c EXCEPT !.timers = @ \ {c.reconnectTimer}, !.reconnectTimer = 0]
            ELSE c
  IN [c1 EXCEPT !.reconnectAttempts = 0]

\* mutant: the user is replaced by the partial instead of merged with it
updatePresenceReplaces(c, partial) ==
  IF c.user = NoUser THEN c
  ELSE [c EXCEPT !.user = [f \in DOMAIN c.user |->
                             IF f \in DOMAIN partial THEN partial[f] ELSE NoUser[f]]]

updatePresence(c, partial) ==
  IF c.user = NoUser THEN c
  ELSE [c EXCEPT !.user = [f \in DOMAIN c.user |->
                             IF f \in DOMAIN partial THEN partial[f] ELSE c.user[f]]]

\* mutant: the planet is written where the id of the user belongs
sendCameraSwapsIds(c, planetId, camera, throws) ==
  IF c.user = NoUser THEN c
  ELSE send(c, CameraMsg(c.user.id, camera, planetId), throws)

sendCamera(c, planetId, camera, throws) ==
  IF c.user = NoUser THEN c
  ELSE send(c, CameraMsg(planetId, camera, c.user.id), throws)

\* Set.has(h)
Has(hs, h) == \E i \in 1..Len(hs) : hs[i] = h

\* Set.add(h)
Add(hs, h) == IF Has(hs, h) THEN hs ELSE Append(hs, h)

\* Set.delete(h)
Delete(hs, h) == SelectSeq(hs, LAMBDA x : x # h)

subscribe(c, type, h) ==
  [c EXCEPT !.handlers[type] = Add(@, h), !.released = @ \ {<<type, h>>}]

\* mutant: the function subscribe() returns empties the set of the tag
unsubscribeClearsTag(c, type, h) ==
  [c EXCEPT !.handlers[type] = <<>>, !.released = @ \cup {<<type, h>>}]

\* the function subscribe() returns
unsubscribe(c, type, h) ==
  [c EXCEPT !.handlers[type] = Delete(@, h), !.released = @ \cup {<<type, h>>}]

on(c, event, h) == [c EXCEPT !.eventHandlers[event] = Add(@, h)]

\* the function on() returns
off(c, event, h) == [c EXCEPT !.eventHandlers[event] = Delete(@, h)]

\* ------------------------------------- the callbacks of RealtimeProvider
connectedListener(c) ==
  [c EXCEPT !.provider.isConnected = TRUE, !.provider.connectionError = ""]

disconnectedListener(c) == [c EXCEPT !.provider.isConnected = FALSE]

errorListener(c, msg) ==
  [c EXCEPT !.provider.connectionError =
              IF msg.message # "" THEN msg.message ELSE "Realtime error"]

presenceSubscriber(c, msg) == [c EXCEPT !.provider.peers = msg.users]

\* mutant: the entries of the message are merged into the local map
selectionSubscriberMerges(c, msg) ==
  [c EXCEPT !.provider.selectedPlanets =
              [pid \in DOMAIN @ \cup DOMAIN msg.selected |->
                 IF pid \in DOMAIN msg.selected THEN msg.selected[pid] ELSE @[pid]],
            !.provider.optimistic = {}]

selectionSubscriber(c, msg) ==
  [c EXCEPT !.provider.selectedPlanets =
              [pid \in DOMAIN msg.selected |-> msg.selected[pid]],
            !.provider.optimistic = {}]

errorSubscriber(c, msg) ==
  [c EXCEPT !.provider.connectionError =
              IF msg.message # "" THEN msg.message ELSE "Realtime error"]

cameraSubscriber(c, msg) ==
  LET prev == c.provider.camerasInPlanet
      inner == MapSet(MapGet(prev, msg.planetId, EmptyMap), msg.userId, msg.camera)
  IN [c EXCEPT !.provider.camerasInPlanet = MapSet(prev, msg.planetId, inner)]

viewerCamerasSubscriber(c, msg) ==
  LET inner == [uid \in DOMAIN msg.cameras |-> msg.cameras[uid]]
  IN [c EXCEPT !.provider.camerasInPlanet = MapSet(@, msg.planetId, inner)]

\* the list of a planet without the user me; the entry goes when it is empty
WithoutUser(sel, key, me) ==
  LET list == SelectSeq(MapGet(sel, key, <<>>), LAMBDA u : u # me)
  IN IF list = <<>> THEN MapDelete(sel, key) ELSE MapSet(sel, key, list)

\* mutant: the planet of the conflict is not compared with the attempt
conflictSubscriberAnyPlanet(c, msg) ==
  LET me == c.user
      attempt == c.provider.lastSelectAttemptRef
  IN IF me = NoUser THEN c
     ELSE IF attempt # ""
     THEN LET c1 == [c EXCEPT !.provider.selectedPlanets =
                                 WithoutUser(@, msg.planetId, me.id),
                               !.provider.optimistic = @ \ {msg.planetId}]
              c2 == updatePresence(c1, [selectedPlanetId |-> ""])
          IN [c2 EXCEPT !.provider.lastConflict =
                          [planetId |-> msg.planetId, lockedBy |-> msg.lockedBy,
                           reason |-> msg.reason],
                        !.provider.lastSelectAttemptRef = ""]
     ELSE c

\* mutant: the attempt stays outstanding after the rollback
conflictSubscriberKeepsAttempt(c, msg) ==
  LET me == c.user
      attempt == c.provider.lastSelectAttemptRef
  IN IF me = NoUser THEN c
     ELSE IF attempt # "" /\ msg.planetId = attempt
     THEN LET c1 == [c EXCEPT !.provider.selectedPlanets =
                                 WithoutUser(@, msg.planetId, me.id),
                               !.provider.optimistic = @ \ {msg.planetId}]
              c2 == updatePresence(c1, [selectedPlanetId |-> ""])
          IN [c2 EXCEPT !.provider.lastConflict =
                          [planetId |-> msg.planetId, lockedBy |-> msg.lockedBy,
                           reason |-> msg.reason]]
     ELSE c

conflictSubscriber(c, msg) ==
  LET me == c.user
      attempt == c.provider.lastSelectAttemptRef
  IN IF me = NoUser THEN c
     ELSE IF attempt # "" /\ msg.planetId = attempt
     THEN LET c1 == [c EXCEPT !.provider.selectedPlanets =
                                 WithoutUser(@, msg.planetId, me.id),
                               !.provider.optimistic = @ \ {msg.planetId}]
              c2 == updatePresence(c1, [selectedPlanetId |-> ""])
          IN [c2 EXCEPT !.provider.lastConflict =
                          [planetId |-> msg.planetId, lockedBy |-> msg.lockedBy,
                           reason |-> msg.reason],
                        !.provider.lastSelectAttemptRef = ""]
     ELSE c

\* the callbacks of other callers: opaque, and h2 raises whenever it is called
Callbacks == {"h1", "h2"}

Raises(h) == h = "h2"

\* one call h(msg) from a loop of the client over the listeners of an event
\* or the subscribers of a tag
call(c, h, tag, msg) ==
  LET c1 == [c EXCEPT !.invoked = Append(@, [h |-> h, tag |-> tag, msg |-> msg])]
  IN CASE h = "offConnected" -> connectedListener(c1)
       [] h = "offDisconnected" -> disconnectedListener(c1)
       [] h = "offError" -> errorListener(c1, msg)
       [] h = "unsubPresence" -> presenceSubscriber(c1, msg)
       [] h = "unsubSelection" -> selectionSubscriber(c1, msg)
       [] h = "unsubError" -> errorSubscriber(c1, msg)
       [] h = "unsubAck" -> c1
       [] h = "unsubCamera" -> cameraSubscriber(c1, msg)
       [] h = "unsubViewerCameras" -> viewerCamerasSubscriber(c1, msg)
       [] h = "unsubConflict" -> conflictSubscriber(c1, msg)
       [] OTHER -> c1

\* for (const h of set) { try { h(msg) } catch {} }
RECURSIVE forEach(_, _, _, _, _)
forEach(c, hs, i, tag, msg) ==
  IF i > Len(hs) THEN c
  ELSE forEach(call(c, hs[i], tag, msg), hs, i + 1, tag, msg)

\* the loop without its try: the first callback that raises ends it
RECURSIVE forEachNoCatch(_, _, _, _, _)
forEachNoCatch(c, hs, i, tag, msg) ==
  IF i > Len(hs) THEN c
  ELSE IF Raises(hs[i]) THEN call(c, hs[i], tag, msg)
  ELSE forEachNoCatch(call(c, hs[i], tag, msg), hs, i + 1, tag, msg)

\* the notification of the listeners of a lifecycle event
notify(c, event, msg) == forEach(c, c.eventHandlers[event], 1, event, msg)

\* mutant: a subscriber that raises ends the delivery
dispatchNoCatch(c, msg) ==
  LET setForType == IF msg.type \in Tags THEN c.handlers[msg.type] ELSE <<>>
  IN IF setForType = <<>> THEN c
     ELSE forEachNoCatch(c, setForType, 1, msg.type, msg)

\* dispatch(msg): a tag that was never subscribed has no set
dispatch(c, msg) ==
  LET setForType == IF msg.type \in Tags THEN c.handlers[msg.type] ELSE <<>>
  IN IF setForType = <<>> THEN c
     ELSE forEach(c, setForType, 1, msg.type, msg)

\* mutant: no try around JSON.parse and dispatch
onmessageNoCatch(c, data) ==
  IF data[1] = "text" THEN [c EXCEPT !.returned = "throw"]
  ELSE IF data[1] = "null" THEN [c EXCEPT !.returned = "throw"]
  ELSE dispatch(c, data[2])

\* ws.onmessage: JSON.parse raises on a text that is not JSON, and msg.type
\* raises on a value without properties; both are caught here
onmessage(c, data) ==
  IF data[1] = "text" THEN c
  ELSE IF data[1] = "null" THEN c
  ELSE dispatch(c, data[2])

\* ws.onerror
onerror(c) == notify(c, "error", [NoServerMsg EXCEPT !.message = "socket error"])

\* the reactions RealtimeProvider attached to the promise of connect() and
\* of reconnect(); React drops the updates of an unmounted component
settled(c, kind, outcome) ==
  IF ~c.provider.mounted THEN c
  ELSE IF kind = "connect"
  THEN IF outcome = "resolved"
       THEN [c EXCEPT !.provider.currentUser = c.user]
       ELSE [c EXCEPT !.provider.connectionError = "Failed to connect to realtime server",
                      !.provider.isConnected = FALSE]
  ELSE IF kind = "reconnect"
  THEN IF outcome = "resolved"
       THEN [c EXCEPT !.provider.isConnected = isConnected(c),
                      !.provider.connectionError = ""]
       ELSE [c EXCEPT !.provider.connectionError = "Failed to reconnect"]
  ELSE c

\* this.ws is a socket that is connecting or open
hasLiveSocket(c) ==
  c.ws # 0 /\ c.sockets[c.ws].readyState \in {"connecting", "open"}

\* openSocket() up to the return of its promise; throws: new WebSocket raises
openSocket(c, kind, room, throws) ==
  IF throws
  THEN [c EXCEPT !.sockets = Append(@, [readyState |-> "threw", cont |-> kind,
                                        room |-> room, promise |-> "rejected",
                                        joined |-> FALSE, dropped |-> FALSE,
                                        overlaps |-> FALSE])]
  ELSE [c EXCEPT !.sockets = Append(@, [readyState |-> "connecting", cont |-> kind,
                                        room |-> room, promise |-> "pending",
                                        joined |-> FALSE, dropped |-> FALSE,
                                        overlaps |-> hasLiveSocket(c)]),
                 !.ws = Len(c.sockets) + 1]

\* mutant: the id persisted in storage is not looked up
connectRegenerates(c, r, userId, genId, genName, genColor, throws) ==
  LET existingId == IF userId # "" THEN userId ELSE genId
      name == IF c.storage.name # "" THEN c.storage.name ELSE genName
      color == IF c.storage.color # "" THEN c.storage.color ELSE genColor
      u == [NoUser EXCEPT !.id = existingId, !.name = name, !.color = color]
      c1 == [c EXCEPT !.roomId = r, !.storage = u, !.user = u]
      c2 == openSocket(c1, "connect", r, throws)
  IN IF throws THEN settled(c2, "connect", "rejected") ELSE c2

\* connect(roomId, userId?) up to its await
connect(c, r, userId, genId, genName, genColor, throws) ==
  LET existingId == IF userId # "" THEN userId
                    ELSE IF c.storage.id # "" THEN c.storage.id ELSE genId
      name == IF c.storage.name # "" THEN c.storage.name ELSE genName
      color == IF c.storage.color # "" THEN c.storage.color ELSE genColor
      u == [NoUser EXCEPT !.id = existingId, !.name = name, !.color = color]
      c1 == [c EXCEPT !.roomId = r, !.storage = u, !.user = u]
      c2 == openSocket(c1, "connect", r, throws)
  IN IF throws THEN settled(c2, "connect", "rejected") ELSE c2

\* WebSocket.close(): a socket that is not yet closed starts closing
close(sock) ==
  IF sock.readyState \in {"connecting", "open"}
  THEN [sock EXCEPT !.readyState = "closing", !.dropped = TRUE]
  ELSE sock

disconnect(c) ==
  LET c1 == stopHeartbeat(c)
      c2 == IF c1.ws # 0
            THEN [c1 EXCEPT !.sockets[c1.ws] = close(@)]
            ELSE c1
      c3 == [c2 EXCEPT !.ws = 0, !.cut = Len(c2.delays)]
  IN clearReconnect(c3)

\* reconnect() up to its await
reconnect(c, throws) ==
  IF c.roomId = "" THEN settled(c, "reconnect", "resolved")
  ELSE IF isConnected(c) THEN settled(c, "reconnect", "resolved")
  ELSE IF throws
  THEN settled(openSocket(c, "reconnect", c.roomId, TRUE), "reconnect", "rejected")
  ELSE openSocket(c, "reconnect", c.roomId, FALSE)

\* the flush loop of onopen; F: the positions whose transmit raises
RECURSIVE flush(_, _, _, _)
flush(c, queue, i, F) ==
  IF i > Len(queue) THEN c
  ELSE flush(send(c, queue[i], i \in F), queue, i + 1, F)

\* what runs once the promise of socket s resolves: the rest of connect(),
\* of reconnect(), or the then() of the reconnect timer
continuation(c, s, throws) ==
  LET kind == c.sockets[s].cont
  IN IF kind = "connect"
     THEN settled(send(startHeartbeat(c), JoinMsg(c.sockets[s].room, c.user), throws),
                  "connect", "resolved")
     ELSE IF kind = "reconnect"
     THEN settled(IF c.user # NoUser
                  THEN send(c, JoinMsg(c.roomId, c.user), throws)
                  ELSE c,
                  "reconnect", "resolved")
     ELSE IF c.user # NoUser /\ c.roomId # ""
          THEN startHeartbeat(send(c, JoinMsg(c.roomId, c.user), throws))
          ELSE c

\* mutant: the attempt counter is not reset
onopenKeepsAttempts(c, s, F, throws) ==
  LET c1 == [c EXCEPT !.sockets[s].readyState = "open"]
      c2 == [c1 EXCEPT !.delays = <<>>, !.cut = 0]
      c3 == flush([c2 EXCEPT !.messageQueue = <<>>], c2.messageQueue, 1, F)
      c4 == [notify(c3, "connected", NoServerMsg) EXCEPT !.sockets[s].promise = "resolved"]
  IN continuation(c4, s, throws)

\* ws.onopen of socket s, then the continuation of its promise
onopen(c, s, F, throws) ==
  LET c1 == [c EXCEPT !.sockets[s].readyState = "open"]
      c2 == [c1 EXCEPT !.reconnectAttempts = 0, !.delays = <<>>, !.cut = 0]
      c3 == flush([c2 EXCEPT !.messageQueue = <<>>], c2.messageQueue, 1, F)
      c4 == [notify(c3, "connected", NoServerMsg) EXCEPT !.sockets[s].promise = "resolved"]
  IN continuation(c4, s, throws)

\* mutant: a close schedules nothing
oncloseNoReconnect(c, s) ==
  stopHeartbeat(notify([c EXCEPT !.sockets[s].readyState = "closed"],
                       "disconnected", NoServerMsg))

\* ws.onclose of socket s
onclose(c, s) ==
  scheduleReconnect(notify([c EXCEPT !.sockets[s].readyState = "closed"],
                           "disconnected", NoServerMsg))

\* the callback of the reconnect timeout h, with the catch() of its promise
reconnectTimerFired(c, h, throws) ==
  LET c1 == [c EXCEPT !.timers = @ \ {h}, !.reconnectTimer = 0]
  IN IF c1.roomId = "" THEN c1
     ELSE IF throws
          THEN scheduleReconnect(openSocket(c1, "timer", c1.roomId, TRUE))
          ELSE openSocket(c1, "timer", c1.roomId, FALSE)

\* the callback of the heartbeat interval
heartbeatFired(c, throws) ==
  IF c.user = NoUser THEN c
  ELSE send(c, HeartbeatMsg(c.user.id), throws)

\* ------------------------------------------ the actions of RealtimeProvider
\* the effect of RealtimeProvider: new RealtimeClient({url, roomId}),
\* connect(roomId), and the registration of its listeners and subscribers
mount(c, r, genId, genName, genColor, throws) ==
  LET c0 == [c EXCEPT !.roomId = r, !.provider.clientRef = TRUE,
                      !.provider.mounted = TRUE]
      c1 == connect(c0, r, "", genId, genName, genColor, throws)
      c2 == on(on(on(c1, "connected", ProviderListeners.connected),
                  "disconnected", ProviderListeners.disconnected),
               "error", ProviderListeners.error)
      c3 == subscribe(subscribe(subscribe(subscribe(c2,
              "presence", ProviderSubscribers.presence),
              "selection_state", ProviderSubscribers.selection_state),
              "error", ProviderSubscribers.error),
              "ack", ProviderSubscribers.ack)
  IN subscribe(subscribe(subscribe(c3,
       "camera", ProviderSubscribers.camera),
       "viewer_cameras", ProviderSubscribers.viewer_cameras),
       "conflict", ProviderSubscribers.conflict)

\* a list with me.id in it, once
WithUser(list, me) == IF Has(list, me) THEN list ELSE Append(list, me)

\* mutant: the optimistic update appends without looking
selectPlanetAppends(c, planetId, throws) ==
  IF ~c.provider.clientRef THEN [c EXCEPT !.returned = "false"]
  ELSE IF c.user = NoUser THEN [c EXCEPT !.returned = "false"]
  ELSE LET me == c.user
           c1 == [c EXCEPT !.provider.selectedPlanets =
                             MapSet(@, planetId, Append(MapGet(@, planetId, <<>>), me.id)),
                           !.provider.lastSelectAttemptRef = planetId,
                           !.provider.optimistic = @ \cup {planetId},
                           !.provider.withdrawn = @ \ {planetId}]
           c2 == updatePresence(c1, [selectedPlanetId |-> planetId])
           c3 == send(c2, PlanetMsg("select", planetId, me.id), throws)
       IN [c3 EXCEPT !.returned = "true"]

selectPlanet(c, planetId, throws) ==
  IF ~c.provider.clientRef THEN [c EXCEPT !.returned = "false"]
  ELSE IF c.user = NoUser THEN [c EXCEPT !.returned = "false"]
  ELSE LET me == c.user
           c1 == [c EXCEPT !.provider.selectedPlanets =
                             MapSet(@, planetId, WithUser(MapGet(@, planetId, <<>>), me.id)),
                           !.provider.lastSelectAttemptRef = planetId,
                           !.provider.optimistic = @ \cup {planetId},
                           !.provider.withdrawn = @ \ {planetId}]
           c2 == updatePresence(c1, [selectedPlanetId |-> planetId])
           c3 == send(c2, PlanetMsg("select", planetId, me.id), throws)
       IN [c3 EXCEPT !.returned = "true"]

unselectPlanet(c, planetId, throws) ==
  IF ~c.provider.clientRef THEN c
  ELSE IF c.user = NoUser THEN c
  ELSE LET me == c.user
           c1 == [c EXCEPT !.provider.selectedPlanets = WithoutUser(@, planetId, me.id),
                           !.provider.optimistic = @ \ {planetId},
                           !.provider.withdrawn = @ \cup {planetId}]
           c2 == updatePresence(c1, [selectedPlanetId |-> ""])
       IN send(c2, PlanetMsg("unselect", planetId, me.id), throws)

\* mutant: the camera is echoed into the local mirror
updateCameraEchoes(c, planetId, camera, throws) ==
  IF ~c.provider.clientRef THEN c
  ELSE cameraSubscriber(sendCamera(c, planetId, camera, throws),
                        [NoServerMsg EXCEPT !.planetId = planetId,
                                            !.userId = c.user.id,
                                            !.camera = camera])

updateCamera(c, planetId, camera, throws) ==
  IF ~c.provider.clientRef THEN c
  ELSE sendCamera(c, planetId, camera, throws)

joinPlanetViewer(c, planetId, throws) ==
  IF ~c.provider.clientRef THEN c
  ELSE IF c.user = NoUser THEN c
  ELSE LET me == c.user
           c1 == updatePresence(c, [isViewingPlanet |-> planetId])
       IN send(c1, PlanetMsg("join_viewer", planetId, me.id), throws)

\* leavePlanetViewer(planetId?): "" is no argument
leavePlanetViewer(c, planetId, throws) ==
  IF ~c.provider.clientRef THEN c
  ELSE IF c.user = NoUser THEN c
  ELSE LET me == c.user
           pid == IF planetId # "" THEN planetId ELSE me.isViewingPlanet
           c1 == updatePresence(c, [isViewingPlanet |-> ""])
           c2 == IF pid # ""
                 THEN send(c1, PlanetMsg("leave_viewer", pid, me.id), throws)
                 ELSE c1
           prev == c2.provider.camerasInPlanet
           inner == MapDelete(MapGet(prev, pid, EmptyMap), me.id)
       IN IF pid # ""
          THEN [c2 EXCEPT !.provider.camerasInPlanet =
                            IF DOMAIN inner = {} THEN MapDelete(prev, pid)
                            ELSE MapSet(prev, pid, inner)]
          ELSE c2

retryConnection(c, throws) ==
  IF ~c.provider.clientRef THEN c
  ELSE reconnect(c, throws)

clearConflict(c) == [c EXCEPT !.provider.lastConflict = NoConflict]

\* the cleanup of the effect
unmount(c) ==
  LET c1 == unsubscribe(unsubscribe(unsubscribe(unsubscribe(c,
              "presence", ProviderSubscribers.presence),
              "selection_state", ProviderSubscribers.selection_state),
              "error", ProviderSubscribers.error),
              "ack", ProviderSubscribers.ack)
      c2 == unsubscribe(unsubscribe(unsubscribe(c1,
              "camera", ProviderSubscribers.camera),
              "viewer_cameras", ProviderSubscribers.viewer_cameras),
              "conflict", ProviderSubscribers.conflict)
      c3 == off(off(off(c2, "connected", ProviderListeners.connected),
                    "disconnected", ProviderListeners.disconnected),
                "error", ProviderListeners.error)
  IN [disconnect(c3) EXCEPT !.provider.mounted = FALSE]

\* ----------------------------------------------------------------- actions
\* Every action takes T, the outcomes the host allows where a host call may
\* raise (new WebSocket, WebSocket.send): BOOLEAN, or {FALSE} for a host
\* that does not raise.
Op(name, s, m) == [op |-> name, sock |-> s, msg |-> m]

Rooms == {"R1"}
Planets == {"p1"}

\* the messages a caller hands to send()
CallerMsgs(uid) == {PlanetMsg(t, p, uid) : t \in {"select", "unselect"}, p \in Planets}

Connect(bound, T, Explicit, GenIds, GenNames, GenColors) ==
  /\ Len(sockets) < bound
  /\ \E r \in Rooms, uid \in Explicit, gi \in GenIds, gn \in GenNames,
        gc \in GenColors, throws \in T :
       /\ \E c \in {connect(This, r, uid, gi, gn, gc, throws)} : Commit(c)
       /\ lastOp' = Op("connect", Len(sockets) + 1,
                       [NoMsg EXCEPT !.roomId = r, !.userId = uid])
  /\ disconnected' = FALSE

Reconnect(bound, T) ==
  /\ Len(sockets) < bound
  /\ \E throws \in T : \E c \in {reconnect(This, throws)} : Commit(c)
  /\ disconnected' = FALSE
  /\ lastOp' = Op("reconnect", Len(sockets'), NoMsg)

Disconnect ==
  /\ \E c \in {disconnect(This)} : Commit(c)
  /\ disconnected' = TRUE
  /\ lastOp' = Op("disconnect", ws, NoMsg)

Send(T) ==
  /\ Len(messageQueue) < MaxQueue
  /\ \E m \in CallerMsgs(user.id), throws \in T :
       /\ \E c \in {send(This, m, throws)} : Commit(c)
       /\ lastOp' = Op("send", ws, m)
  /\ UNCHANGED disconnected

HeartbeatTick(T) ==
  /\ Len(messageQueue) < MaxQueue
  /\ \E h \in intervals, throws \in T :
       \E c \in {heartbeatFired(This, throws)} : Commit(c)
  /\ lastOp' = Op("heartbeat", ws, IF user = NoUser THEN NoMsg ELSE HeartbeatMsg(user.id))
  /\ UNCHANGED disconnected

\* the host reports socket s open
SockOpen(T) ==
  \E s \in 1..Len(sockets) :
    /\ sockets[s].readyState = "connecting"
    /\ \E F \in SUBSET {i \in 1..Len(messageQueue) : TRUE \in T}, throws \in T :
         \E c \in {onopen(This, s, F, throws)} : Commit(c)
    /\ lastOp' = Op("open", s, NoMsg)
    /\ UNCHANGED disconnected

\* the host reports socket s closed: the connection failed or was lost, or
\* the close() the client asked for completed
SockClose(S) ==
  \E s \in S :
    /\ sockets[s].readyState \in {"connecting", "open", "closing"}
    /\ \E c \in {onclose(This, s)} : Commit(c)
    /\ lastOp' = Op("close", s, NoMsg)
    /\ UNCHANGED disconnected

\* the host runs a pending reconnect timeout
TimerFire(bound, T) ==
  /\ Len(sockets) < bound
  /\ \E h \in timers, throws \in T :
       \E c \in {reconnectTimerFired(This, h, throws)} : Commit(c)
  /\ lastOp' = Op("timer", Len(sockets'), NoMsg)
  /\ UNCHANGED disconnected

\* a caller subscribes h to a tag
Subscribe(SubTags) ==
  /\ \E tag \in SubTags, h \in Callbacks :
       /\ ~Has(handlers[tag], h)
       /\ \E c \in {subscribe(This, tag, h)} : Commit(c)
  /\ lastOp' = Op("subscribe", 0, NoMsg)
  /\ UNCHANGED disconnected

\* a caller calls the function a subscribe() returned
Unsubscribe ==
  /\ \E tag \in Tags, h \in Callbacks :
       /\ Has(handlers[tag], h)
       /\ \E c \in {unsubscribe(This, tag, h)} : Commit(c)
  /\ lastOp' = Op("unsubscribe", 0, NoMsg)
  /\ UNCHANGED disconnected

\* a caller registers the listener h of a lifecycle event
On(Listened) ==
  /\ \E event \in Listened, h \in Callbacks :
       /\ ~Has(eventHandlers[event], h)
       /\ \E c \in {on(This, event, h)} : Commit(c)
  /\ lastOp' = Op("on", 0, NoMsg)
  /\ UNCHANGED disconnected

\* a caller calls the function an on() returned
Off ==
  /\ \E event \in Events, h \in Callbacks :
       /\ Has(eventHandlers[event], h)
       /\ \E c \in {off(This, event, h)} : Commit(c)
  /\ lastOp' = Op("off", 0, NoMsg)
  /\ UNCHANGED disconnected

\* the host delivers a message event on the open socket s
SockMessage(Data) ==
  \E s \in 1..Len(sockets), data \in Data :
    /\ sockets[s].readyState = "open"
    /\ \E c \in {[onmessage(This, data) EXCEPT !.received = data]} : Commit(c)
    /\ lastOp' = Op("message", s, NoMsg)
    /\ UNCHANGED disconnected

\* the host reports an error on socket s
SockError ==
  \E s \in 1..Len(sockets) :
    /\ sockets[s].readyState \in {"connecting", "open"}
    /\ \E c \in {onerror(This)} : Commit(c)
    /\ lastOp' = Op("error", s, NoMsg)
    /\ UNCHANGED disconnected

\* ---------------------------------------------------------- specifications
\* new RealtimeClient(options): options.roomId given or not
InitClient ==
  /\ roomId \in {""} \cup Rooms
  /\ user = NoUser
  /\ storage = NoUser
  /\ ws = 0
  /\ sockets = <<>>
  /\ messageQueue = <<>>
  /\ heartbeatTimer = 0
  /\ intervals = {}
  /\ reconnectTimer = 0
  /\ timers = {}
  /\ reconnectAttempts = 0
  /\ delays = <<>>
  /\ cut = 0
  /\ out = <<>>
  /\ threw = FALSE
  /\ disconnected = FALSE
  /\ lastOp = Op("init", 0, NoMsg)
  /\ handlers = [tag \in Tags |-> <<>>]
  /\ eventHandlers = [event \in Events |-> <<>>]
  /\ invoked = <<>>
  /\ received = NoData
  /\ provider = NoProvider
  /\ returned = ""
  /\ released = {}
  /\ filters = NoFilters
  /\ correlation = NoCorrelation

Init ==
  InitClient /\ server = NoRoom /\ classifier = NoClassifier(MODEL_VERSION)

GenIds == {"g1"}
GenNames == {"Orion 100"}
GenColors == {"hsl(200 80% 60%)"}

\* any host, and a caller that connects a client once, as RealtimeProvider
\* does, and then calls reconnect(), send() and disconnect() at will
Next ==
  \/ user = NoUser /\ Connect(MaxSockets, BOOLEAN, {""}, GenIds, GenNames, GenColors)
  \/ Reconnect(MaxSockets, BOOLEAN)
  \/ Disconnect
  \/ Send(BOOLEAN)
  \/ HeartbeatTick(BOOLEAN)
  \/ SockOpen(BOOLEAN)
  \/ SockClose(1..Len(sockets))
  \/ TimerFire(MaxSockets, BOOLEAN)

Spec == Init /\ [][Next]_vars

\* a transport that never opens, and a caller that never disconnects
NextBackoff ==
  \/ user = NoUser /\ Connect(MaxRetries, BOOLEAN, {""}, GenIds, GenNames, GenColors)
  \/ Reconnect(MaxRetries, BOOLEAN)
  \/ SockClose(1..Len(sockets))
  \/ TimerFire(MaxRetries, BOOLEAN)

SpecBackoff == Init /\ [][NextBackoff]_vars

\* any host, and a caller that connects once and then calls reconnect() and
\* disconnect() at will, and sends nothing
NextLifecycle ==
  \/ user = NoUser /\ Connect(MaxLifecycle, BOOLEAN, {""}, GenIds, GenNames, GenColors)
  \/ Reconnect(MaxLifecycle, BOOLEAN)
  \/ Disconnect
  \/ SockOpen(BOOLEAN)
  \/ SockClose(1..Len(sockets))
  \/ TimerFire(MaxLifecycle, BOOLEAN)

SpecLifecycle == Init /\ [][NextLifecycle]_vars

\* the sockets that failed so far
Failures ==
  Cardinality({s \in 1..Len(sockets) : sockets[s].readyState \in {"closed", "threw"}})

\* what the host may still do at a point where it may raise
HostMayRaise == IF Failures < MaxFailures THEN BOOLEAN ELSE {FALSE}

\* a transport that fails MaxFailures times at most and then is able to
\* open, a transmit that does not raise, and a caller that connects once,
\* sends, and makes no other call
NextLive ==
  \/ user = NoUser /\ Connect(MaxFailures + 2, HostMayRaise, {""}, GenIds, GenNames, GenColors)
  \/ Send({FALSE})
  \/ HeartbeatTick({FALSE})
  \/ SockOpen({FALSE})
  \/ Failures < MaxFailures /\ SockClose(1..Len(sockets))
  \/ TimerFire(MaxFailures + 2, HostMayRaise)

\* the host runs every pending timeout, and reports a socket open when
\* nothing else can happen to it
SpecLive ==
  /\ Init
  /\ [][NextLive]_vars
  /\ WF_vars(TimerFire(MaxFailures + 2, HostMayRaise))
  /\ WF_vars(SockOpen({FALSE}))

\* the page is loaded again: a new RealtimeClient on the same storage, and
\* a host without the sockets and timers of the page before
Reload ==
  /\ user # NoUser
  /\ roomId' = ""
  /\ user' = NoUser
  /\ ws' = 0
  /\ sockets' = <<>>
  /\ messageQueue' = <<>>
  /\ heartbeatTimer' = 0
  /\ intervals' = {}
  /\ reconnectTimer' = 0
  /\ timers' = {}
  /\ reconnectAttempts' = 0
  /\ delays' = <<>>
  /\ cut' = 0
  /\ out' = <<>>
  /\ threw' = FALSE
  /\ disconnected' = FALSE
  /\ lastOp' = Op("reload", 0, NoMsg)
  /\ handlers' = [tag \in Tags |-> <<>>]
  /\ eventHandlers' = [event \in Events |-> <<>>]
  /\ invoked' = <<>>
  /\ received' = NoData
  /\ returned' = ""
  /\ released' = {}
  /\ UNCHANGED <<storage, provider, server, filters, classifier,
               correlation>>

\* what generateId, generateDisplayName and generateColor may return
AllIds == {"g1", "g2"}
AllNames == {"Orion 100", "Lyra 200"}
AllColors == {"hsl(200 80% 60%)", "hsl(20 80% 60%)"}

\* a caller that calls connect() again and again, with and without an
\* explicit userId, on a storage that outlives the client
NextIdentity ==
  \/ Connect(MaxIdentity, {FALSE}, {"", "u9"}, AllIds, AllNames, AllColors)
  \/ SockOpen({FALSE})
  \/ Reload

SpecIdentity == Init /\ [][NextIdentity]_vars

\* ------------------------------------------------ RealtimeProvider's tasks
\* the planets and the camera poses of the user interface
ProviderPlanets == {"p1", "p2"}
Cameras == {"cam1"}

\* RealtimeProvider before its effect has run: no client yet
InitProvider == Init /\ roomId = ""

\* the effect runs: the provider is mounted
Mount(bound, T) ==
  /\ ~provider.clientRef
  /\ Len(sockets) < bound
  /\ \E r \in Rooms, gi \in GenIds, gn \in GenNames, gc \in GenColors, throws \in T :
       \E c \in {mount(This, r, gi, gn, gc, throws)} : Commit(c)
  /\ disconnected' = FALSE
  /\ lastOp' = Op("mount", Len(sockets) + 1, NoMsg)

\* the cleanup of the effect runs: the provider is unmounted
Unmount ==
  /\ provider.mounted
  /\ \E c \in {unmount(This)} : Commit(c)
  /\ disconnected' = TRUE
  /\ lastOp' = Op("unmount", ws, NoMsg)

\* the user interface can call the actions of the context before the effect
\* has run and while the provider is mounted
Callable == ~provider.clientRef \/ provider.mounted

SelectPlanet(P, T) ==
  /\ Callable
  /\ Len(messageQueue) < MaxQueue
  /\ \E p \in P, throws \in T :
       /\ \E c \in {selectPlanet(This, p, throws)} : Commit(c)
       /\ lastOp' = Op("selectPlanet", ws, PlanetMsg("select", p, user.id))
  /\ UNCHANGED disconnected

UnselectPlanet(P, T) ==
  /\ Callable
  /\ Len(messageQueue) < MaxQueue
  /\ \E p \in P, throws \in T :
       /\ \E c \in {unselectPlanet(This, p, throws)} : Commit(c)
       /\ lastOp' = Op("unselectPlanet", ws, PlanetMsg("unselect", p, user.id))
  /\ UNCHANGED disconnected

UpdateCamera(P, T) ==
  /\ Callable
  /\ Len(messageQueue) < MaxQueue
  /\ \E p \in P, cam \in Cameras, throws \in T :
       /\ \E c \in {updateCamera(This, p, cam, throws)} : Commit(c)
       /\ lastOp' = Op("updateCamera", ws, CameraMsg(p, cam, user.id))
  /\ UNCHANGED disconnected

JoinPlanetViewer(P, T) ==
  /\ Callable
  /\ Len(messageQueue) < MaxQueue
  /\ \E p \in P, throws \in T :
       /\ \E c \in {joinPlanetViewer(This, p, throws)} : Commit(c)
       /\ lastOp' = Op("joinPlanetViewer", ws, PlanetMsg("join_viewer", p, user.id))
  /\ UNCHANGED disconnected

LeavePlanetViewer(P, T) ==
  /\ Callable
  /\ Len(messageQueue) < MaxQueue
  /\ \E p \in P, throws \in T :
       /\ \E c \in {leavePlanetViewer(This, p, throws)} : Commit(c)
       /\ lastOp' = Op("leavePlanetViewer", ws, PlanetMsg("leave_viewer", p, user.id))
  /\ UNCHANGED disconnected

RetryConnection(bound, T) ==
  /\ Callable
  /\ Len(sockets) < bound
  /\ \E throws \in T : \E c \in {retryConnection(This, throws)} : Commit(c)
  /\ disconnected' = FALSE
  /\ lastOp' = Op("retryConnection", Len(sockets'), NoMsg)

ClearConflict ==
  /\ Callable
  /\ provider.lastConflict # NoConflict
  /\ \E c \in {clearConflict(This)} : Commit(c)
  /\ lastOp' = Op("clearConflict", 0, NoMsg)
  /\ UNCHANGED disconnected

\* the selection maps a server broadcasts: the other member u2, and the
\* user of this client
Selections ==
  {EmptyMap} \cup {[p \in {"p1"} |-> l] : l \in {<<"u2">>, <<"u2", "g1">>}}

\* what the server delivers to a client of RealtimeProvider
ProviderInbound ==
  {<<"json", ConflictMsg(p, "u2", "locked")>> : p \in ProviderPlanets}
    \cup {<<"json", SelectionStateMsg(sel)>> : sel \in Selections}
    \cup {<<"json", PresenceMsg(<<"u2">>)>>}

\* RealtimeProvider with a transport that opens once and does not raise, a
\* user interface that selects and unselects, and a server
NextSelection ==
  \/ Mount(MaxSelection, {FALSE})
  \/ Unmount
  \/ SelectPlanet(ProviderPlanets, {FALSE})
  \/ UnselectPlanet(ProviderPlanets, {FALSE})
  \/ ClearConflict
  \/ SockOpen({FALSE})
  \/ SockMessage(ProviderInbound)
  \/ SockClose(1..Len(sockets))

SpecSelection == InitProvider /\ [][NextSelection]_vars

\* RealtimeProvider with a transport that is replaced when it closes, a user interface
\* that calls every action of the context on one planet, and any host
NextEmit ==
  \/ Mount(MaxEmit, {FALSE})
  \/ SelectPlanet({"p1"}, BOOLEAN)
  \/ UnselectPlanet({"p1"}, BOOLEAN)
  \/ UpdateCamera({"p1"}, BOOLEAN)
  \/ JoinPlanetViewer({"p1"}, BOOLEAN)
  \/ LeavePlanetViewer({"p1", ""}, BOOLEAN)
  \/ HeartbeatTick(BOOLEAN)
  \/ SockOpen(BOOLEAN)
  \/ SockClose(1..Len(sockets))
  \/ TimerFire(MaxEmit, {FALSE})

SpecEmit == InitProvider /\ [][NextEmit]_vars

\* RealtimeProvider and any host: a user interface that selects a planet
\* and asks for a retry at will, and is unmounted at any time
NextProvider ==
  \/ Mount(MaxProvider, BOOLEAN)
  \/ Unmount
  \/ SelectPlanet({"p1"}, {FALSE})
  \/ RetryConnection(MaxProvider, BOOLEAN)
  \/ SockOpen({FALSE})
  \/ SockError
  \/ SockClose(1..Len(sockets))
  \/ TimerFire(MaxProvider, BOOLEAN)

SpecProvider == InitProvider /\ [][NextProvider]_vars

\* what a server, or anything else on the wire, may deliver
Inbound ==
  {<<"text", NoServerMsg>>, <<"null", NoServerMsg>>, <<"json", NoServerMsg>>,
   <<"json", [NoServerMsg EXCEPT !.type = "bogus"]>>,
   <<"json", PresenceMsg(<<>>)>>,
   <<"json", ConflictMsg("p1", "u2", "")>>}

\* a caller that connects once, subscribes and unsubscribes at will and
\* sends, and a host that delivers any payload on an open socket
NextDispatch ==
  \/ user = NoUser /\ Connect(MaxDispatch, BOOLEAN, {""}, GenIds, GenNames, GenColors)
  \/ Subscribe({"presence", "conflict"})
  \/ Unsubscribe
  \/ Send({FALSE})
  \/ SockOpen({FALSE})
  \/ SockMessage(Inbound)
  \/ SockClose(1..Len(sockets))
  \/ TimerFire(MaxDispatch, {FALSE})

SpecDispatch == Init /\ [][NextDispatch]_vars

\* any host, and a caller that registers and removes 'disconnected'
\* listeners at will, connects once and then calls reconnect() and
\* disconnect() at will
NextEvents ==
  \/ user = NoUser /\ Connect(MaxEvents, BOOLEAN, {""}, GenIds, GenNames, GenColors)
  \/ On({"disconnected"})
  \/ Off
  \/ Reconnect(MaxEvents, BOOLEAN)
  \/ Disconnect
  \/ SockOpen({FALSE})
  \/ SockClose(1..Len(sockets))
  \/ TimerFire(MaxEvents, BOOLEAN)

SpecEvents == Init /\ [][NextEvents]_vars

\* ------------------------------------------- the operations of the room
\* everything but the server
clientVars == <<roomId, user, storage, ws, sockets, messageQueue, heartbeatTimer,
                intervals, reconnectTimer, timers, reconnectAttempts, delays,
                cut, out, threw, disconnected, lastOp, handlers, eventHandlers,
                invoked, received, provider, returned, released>>

\* the UserIds of a list of members
IdsOf(ms) == [i \in 1..Len(ms) |-> ms[i].id]

MemberIds(r) == IdsOf(r.members)

IsMember(r, uid) == \E i \in 1..Len(r.members) : r.members[i].id = uid

\* a message for one connection
Reply(r, c, msg) == [r EXCEPT !.sent = Append(@, [to |-> c, msg |-> msg])]

\* a message for the connection of every member of the room
Broadcast(r, msg) ==
  [r EXCEPT !.sent = @ \o [i \in 1..Len(r.members) |->
                             [to |-> r.members[i].conn, msg |-> msg]]]

\* a message for the connections of the members that view planet p, but uid
BroadcastViewers(r, p, uid, msg) ==
  LET viewers == SelectSeq(r.members,
                   LAMBDA x : x.isViewingPlanet = p /\ x.id # uid)
  IN [r EXCEPT !.sent = @ \o [i \in 1..Len(viewers) |->
                                [to |-> viewers[i].conn, msg |-> msg]]]

\* the Member of a join: the UserPresence of the message, seen now on c
Member(c, u, now) ==
  [id |-> u.id, conn |-> c, lastSeen |-> now,
   selectedPlanetId |-> u.selectedPlanetId, isViewingPlanet |-> u.isViewingPlanet]

\* the member uid with field f set to v
WithField(r, uid, f, v) ==
  [r EXCEPT !.members = [i \in 1..Len(@) |->
                           IF @[i].id = uid THEN [@[i] EXCEPT ![f] = v] ELSE @[i]]]

\* the member uid with field f cleared when it is v
ClearField(r, uid, f, v) ==
  [r EXCEPT !.members = [i \in 1..Len(@) |->
                           IF @[i].id = uid /\ @[i][f] = v
                           THEN [@[i] EXCEPT ![f] = ""] ELSE @[i]]]

\* mutant: a join adds a member without looking for the UserId
roomJoinAppends(r, c, m) ==
  LET r1 == [r EXCEPT !.members = Append(@, Member(c, m.user, r.now)),
                      !.joined = @ \cup {c},
                      !.present = @ \cup {m.user.id}]
  IN Reply(Broadcast(r1, PresenceMsg(MemberIds(r1))), c,
           SelectionStateMsg(r1.selected))

\* join(roomId, user): upsert, presence to the room, selection_state to
\* the joiner
roomJoin(r, c, m) ==
  LET member == Member(c, m.user, r.now)
      members == IF IsMember(r, m.user.id)
                 THEN [i \in 1..Len(r.members) |->
                         IF r.members[i].id = m.user.id THEN member
                         ELSE r.members[i]]
                 ELSE Append(r.members, member)
      r1 == [r EXCEPT !.members = members,
                      !.joined = @ \cup {c},
                      !.present = @ \cup {m.user.id}]
  IN Reply(Broadcast(r1, PresenceMsg(MemberIds(r1))), c,
           SelectionStateMsg(r1.selected))

\* mutant: the member goes, what it held in the maps stays
removeKeepsMaps(r, uid) ==
  LET r1 == [r EXCEPT !.members = SelectSeq(@, LAMBDA x : x.id # uid),
                      !.present = @ \ {uid}]
  IN Broadcast(r1, PresenceMsg(MemberIds(r1)))

\* the path of leave, disconnect and expiry: the member goes from the room
\* and from every map; presence, and selection_state if selections changed
remove(r, uid) ==
  LET selected == [p \in RoomPlanets |-> Delete(r.selected[p], uid)]
      r1 == [r EXCEPT !.members = SelectSeq(@, LAMBDA x : x.id # uid),
                      !.selected = selected,
                      !.camerasInPlanet =
                         [p \in RoomPlanets |-> MapDelete(@[p], uid)],
                      !.present = @ \ {uid}]
      r2 == Broadcast(r1, PresenceMsg(MemberIds(r1)))
  IN IF selected # r.selected
     THEN Broadcast(r2, SelectionStateMsg(selected))
     ELSE r2

RECURSIVE removeAll(_, _)
removeAll(r, uids) ==
  IF uids = <<>> THEN r ELSE removeAll(remove(r, Head(uids)), Tail(uids))

\* mutant: any userId is taken for a member
ValidAny(r, c, uid) == TRUE

\* validation: the userId is a member of the room the connection joined
Valid(r, c, uid) == c \in r.joined /\ IsMember(r, uid)

Rejected(r, c) == Reply(r, c, ErrorMsg("unknown user"))

roomLeave(r, c, m) ==
  IF ~Valid(r, c, m.userId) THEN Rejected(r, c) ELSE remove(r, m.userId)

\* mutant: the lock mode is not looked at
roomSelectNoLock(r, c, m) ==
  IF ~Valid(r, c, m.userId) THEN Rejected(r, c)
  ELSE LET r1 == [WithField(r, m.userId, "selectedPlanetId", m.planetId)
                    EXCEPT !.selected[m.planetId] = Add(@, m.userId)]
       IN Broadcast(r1, SelectionStateMsg(r1.selected))

\* mutant: every select of a planet somebody else holds is a conflict
roomSelectAlwaysLocks(r, c, m) ==
  IF ~Valid(r, c, m.userId) THEN Rejected(r, c)
  ELSE LET holders == SelectSeq(r.selected[m.planetId], LAMBDA x : x # m.userId)
       IN IF holders # <<>>
          THEN Reply(r, c, ConflictMsg(m.planetId, holders[1], "locked"))
          ELSE LET r1 == [WithField(r, m.userId, "selectedPlanetId", m.planetId)
                            EXCEPT !.selected[m.planetId] = Add(@, m.userId)]
               IN Broadcast(r1, SelectionStateMsg(r1.selected))

\* select(planetId, userId)
roomSelect(r, c, m) ==
  IF ~Valid(r, c, m.userId) THEN Rejected(r, c)
  ELSE LET holders == SelectSeq(r.selected[m.planetId], LAMBDA x : x # m.userId)
       IN IF r.exclusive /\ holders # <<>>
          THEN Reply(r, c, ConflictMsg(m.planetId, holders[1], "locked"))
          ELSE LET r1 == [WithField(r, m.userId, "selectedPlanetId", m.planetId)
                            EXCEPT !.selected[m.planetId] = Add(@, m.userId)]
               IN Broadcast(r1, SelectionStateMsg(r1.selected))

\* unselect(planetId, userId)
roomUnselect(r, c, m) ==
  IF ~Valid(r, c, m.userId) THEN Rejected(r, c)
  ELSE LET r1 == [ClearField(r, m.userId, "selectedPlanetId", m.planetId)
                    EXCEPT !.selected[m.planetId] = Delete(@, m.userId)]
       IN IF r1.selected # r.selected
          THEN Broadcast(r1, SelectionStateMsg(r1.selected))
          ELSE r1

\* join_viewer(planetId, userId): "" is no camera yet
roomJoinViewer(r, c, m) ==
  IF ~Valid(r, c, m.userId) THEN Rejected(r, c)
  ELSE LET cams == r.camerasInPlanet[m.planetId]
           r1 == [WithField(r, m.userId, "isViewingPlanet", m.planetId)
                    EXCEPT !.camerasInPlanet[m.planetId] =
                             MapSet(cams, m.userId, MapGet(cams, m.userId, ""))]
       IN Reply(r1, c, ViewerCamerasMsg(m.planetId, r1.camerasInPlanet[m.planetId]))

\* leave_viewer(planetId, userId)
roomLeaveViewer(r, c, m) ==
  IF ~Valid(r, c, m.userId) THEN Rejected(r, c)
  ELSE [ClearField(r, m.userId, "isViewingPlanet", m.planetId)
          EXCEPT !.camerasInPlanet[m.planetId] = MapDelete(@, m.userId)]

\* mutant: the update is sent to the whole room
roomCameraToAll(r, c, m) ==
  IF ~Valid(r, c, m.userId) THEN Rejected(r, c)
  ELSE LET r1 == [r EXCEPT !.camerasInPlanet[m.planetId] =
                             MapSet(@, m.userId, m.camera)]
       IN Broadcast(r1, CameraUpdate(m.planetId, m.camera, m.userId))

\* camera(planetId, camera, userId)
roomCamera(r, c, m) ==
  IF ~Valid(r, c, m.userId) THEN Rejected(r, c)
  ELSE LET r1 == [r EXCEPT !.camerasInPlanet[m.planetId] =
                             MapSet(@, m.userId, m.camera)]
       IN BroadcastViewers(r1, m.planetId, m.userId,
                           CameraUpdate(m.planetId, m.camera, m.userId))

\* heartbeat(userId, ts)
roomHeartbeat(r, c, m) ==
  IF ~Valid(r, c, m.userId) THEN Rejected(r, c)
  ELSE Reply(WithField(r, m.userId, "lastSeen", r.now), c, AckMsg)

\* the task of one inbound message m of connection c
receive(r, c, m) ==
  LET r0 == [r EXCEPT !.sent = <<>>, !.req = [conn |-> c, msg |-> m]]
  IN CASE m.type = "join" -> roomJoin(r0, c, m)
       [] m.type = "leave" -> roomLeave(r0, c, m)
       [] m.type = "select" -> roomSelect(r0, c, m)
       [] m.type = "unselect" -> roomUnselect(r0, c, m)
       [] m.type = "join_viewer" -> roomJoinViewer(r0, c, m)
       [] m.type = "leave_viewer" -> roomLeaveViewer(r0, c, m)
       [] m.type = "camera" -> roomCamera(r0, c, m)
       [] m.type = "heartbeat" -> roomHeartbeat(r0, c, m)
       [] OTHER -> r0

\* what the server does that no message asks for
Event(name, c) == [conn |-> c, msg |-> [NoMsg EXCEPT !.type = name]]

\* the connection c closes: the path of leave for its member
roomDisconnect(r, c) ==
  LET r0 == [r EXCEPT !.sent = <<>>, !.req = Event("disconnect", c),
                      !.joined = @ \ {c}]
  IN removeAll(r0, IdsOf(SelectSeq(r.members, LAMBDA x : x.conn = c)))

\* a member is stale when its lastSeen is older than the grace period
Stale(x, now) == now - x.lastSeen > GRACE_PERIOD_MS

\* mutant: a member is stale after one missed heartbeat
expireEarly(r) ==
  LET r0 == [r EXCEPT !.sent = <<>>, !.req = Event("tick", "")]
  IN removeAll(r0, IdsOf(SelectSeq(r.members,
       LAMBDA x : r.now - x.lastSeen >= HEARTBEAT_INTERVAL_MS)))

\* the tick of the Presence & Liveness Tracker
expire(r) ==
  LET r0 == [r EXCEPT !.sent = <<>>, !.req = Event("tick", "")]
  IN removeAll(r0, IdsOf(SelectSeq(r.members, LAMBDA x : Stale(x, r.now))))

\* ------------------------------------------------------ the server's tasks
\* the members of the scenarios and their camera poses
RoomUsers == {"u1", "u2", "u3"}
RoomCameras == {"cam1", "cam2"}

\* the connection a member uses, and the one it uses after a reconnect
ConnOf(uid) == [u1 |-> "c1", u2 |-> "c2", u3 |-> "c3"][uid]
Reconnected == "c4"

\* the UserPresence of a join
Presence(uid, viewing) == [NoUser EXCEPT !.id = uid, !.isViewingPlanet = viewing]

\* the messages of members on their own connections
Joins(U) == {<<ConnOf(u), JoinMsg("R1", Presence(u, ""))>> : u \in U}
Leaves(U) == {<<ConnOf(u), [NoMsg EXCEPT !.type = "leave", !.userId = u]>> : u \in U}
PlanetMsgs(tag, U, P) == {<<ConnOf(u), PlanetMsg(tag, p, u)>> : u \in U, p \in P}
CameraMsgs(U, P) ==
  {<<ConnOf(u), CameraMsg(p, cam, u)>> : u \in U, p \in P, cam \in RoomCameras}
Heartbeats(U) == {<<ConnOf(u), HeartbeatMsg(u)>> : u \in U}

\* the server receives one of the messages Msgs
RoomReceive(Msgs) ==
  /\ \E cm \in Msgs : server' = receive(server, cm[1], cm[2])
  /\ UNCHANGED <<clientVars, filters, classifier, correlation>>

\* a connection that joined closes
RoomDisconnect ==
  /\ \E c \in server.joined : server' = roomDisconnect(server, c)
  /\ UNCHANGED <<clientVars, filters, classifier, correlation>>

\* time passes
Steps == {15000, 45000}

RoomAdvance ==
  /\ \E step \in Steps :
       /\ server.now + step <= MaxClock
       /\ server' = [server EXCEPT !.now = @ + step, !.sent = <<>>,
                                   !.req = Event("advance", "")]
  /\ UNCHANGED <<clientVars, filters, classifier, correlation>>

\* the tick of the tracker runs
RoomExpire ==
  /\ server.members # <<>>
  /\ server' = expire(server)
  /\ UNCHANGED <<clientVars, filters, classifier, correlation>>

\* a server in either lock mode, before the first join
InitRoom ==
  /\ InitClient
  /\ roomId = ""
  /\ server \in {Room(e) : e \in BOOLEAN}
  /\ classifier = NoClassifier(MODEL_VERSION)

\* the messages of the three members, about either planet
AllJoins == Joins(RoomUsers)
AllLeaves == Leaves(RoomUsers)
AllSelects == PlanetMsgs("select", RoomUsers, RoomPlanets)
AllUnselects == PlanetMsgs("unselect", RoomUsers, RoomPlanets)
AllJoinViewers == PlanetMsgs("join_viewer", RoomUsers, RoomPlanets)
AllLeaveViewers == PlanetMsgs("leave_viewer", RoomUsers, RoomPlanets)

\* the messages of u1 and u2, about p1
PairJoins == Joins({"u1", "u2"})
PairLeaves == Leaves({"u1", "u2"})
PairSelects == PlanetMsgs("select", {"u1", "u2"}, {"p1"})
PairJoinViewers == PlanetMsgs("join_viewer", {"u1", "u2"}, {"p1"})
PairHeartbeats == Heartbeats({"u1", "u2"})

\* a room whose members join, leave and disconnect, select and unselect
NextRoomSelect ==
  \/ RoomReceive(AllJoins)
  \/ RoomReceive(AllLeaves)
  \/ RoomReceive(AllSelects)
  \/ RoomReceive(AllUnselects)
  \/ RoomDisconnect

SpecRoomSelect == InitRoom /\ [][NextRoomSelect]_vars

\* u1 joins again on the connection of its reconnect, as it was or as a
\* viewer of p1
Rejoins == {<<Reconnected, JoinMsg("R1", Presence("u1", v))>> : v \in {"", "p1"}}

\* a room whose members join, join again, leave and disconnect
NextRoomMembers ==
  \/ RoomReceive(AllJoins)
  \/ RoomReceive(Rejoins)
  \/ RoomReceive(AllLeaves)
  \/ RoomDisconnect

SpecRoomMembers == InitRoom /\ [][NextRoomMembers]_vars

\* every message but join, of any connection, in the name of any user
Strays(Cs, U) ==
  {<<c, m>> : c \in Cs,
              m \in {[NoMsg EXCEPT !.type = "leave", !.userId = u] : u \in U}
                      \cup {PlanetMsg(tag, "p1", u) :
                              tag \in {"select", "unselect", "join_viewer", "leave_viewer"},
                              u \in U}
                      \cup {CameraMsg("p1", "cam1", u) : u \in U}
                      \cup {HeartbeatMsg(u) : u \in U}}

\* what the connection of u1 and the connection of no member may send
StrayMsgs == Strays({"c1", "c3"}, {"u1", "u2", "u3"})

\* a room that u1 and u2 join, and connections that send anything
NextRoomValidation ==
  \/ RoomReceive(PairJoins)
  \/ RoomReceive(StrayMsgs)
  \/ RoomDisconnect

SpecRoomValidation == InitRoom /\ [][NextRoomValidation]_vars

\* a room whose two members select and view p1, send heartbeats or not,
\* leave or disconnect, while time passes and the tracker ticks
NextRoomLiveness ==
  \/ RoomReceive(PairJoins)
  \/ RoomReceive(PairSelects)
  \/ RoomReceive(PairJoinViewers)
  \/ RoomReceive(PairHeartbeats)
  \/ RoomReceive(PairLeaves)
  \/ RoomDisconnect
  \/ RoomAdvance
  \/ RoomExpire

SpecRoomLiveness == InitRoom /\ [][NextRoomLiveness]_vars

\* the cameras u1 sends, and the leave of u2
CamerasOfU1 == CameraMsgs({"u1"}, RoomPlanets)
LeaveOfU2 == Leaves({"u2"})

\* a room of three whose members enter and leave the viewers of two
\* planets and send cameras
NextRoomCameras ==
  \/ RoomReceive(AllJoins)
  \/ RoomReceive(AllJoinViewers)
  \/ RoomReceive(AllLeaveViewers)
  \/ RoomReceive(CamerasOfU1)
  \/ RoomReceive(LeaveOfU2)

SpecRoomCameras == InitRoom /\ [][NextRoomCameras]_vars

\* ------------------------------------- filters.ts and memoizedFilters.ts
Abs(x) == IF x < 0 THEN -x ELSE x

\* clamp(v, 0, 1), in thousandths
clamp(v) == IF v < 0 THEN 0 ELSE IF v > 1000 THEN 1000 ELSE v

\* _heuristicEarthLikeScore(p): the three scores in thousandths, the
\* weighted sum rounded to a percentage
heuristicEarthLikeScore(p) ==
  LET radiusScore == clamp(1000 - Abs(p.pl_rade - 10) * 100)
      insolScore == clamp(1000 - Abs(p.pl_insol - 10) * 50)
      tempScore == IF "pl_eqt" \in DOMAIN p
                   THEN clamp(1000 - Abs(p.pl_eqt - 255) * 10)
                   ELSE 500
      score == 500 * radiusScore + 350 * insolScore + 150 * tempScore
  IN IF "pl_rade" \notin DOMAIN p \/ "pl_insol" \notin DOMAIN p THEN 0
     ELSE (score + 5000) \div 10000

\* mlEarthLikeScoreSync(p): the cached prediction, or the heuristic
mlEarthLikeScoreSync(f, name) ==
  IF name \in DOMAIN f.mlCache THEN f.mlCache[name]
  ELSE heuristicEarthLikeScore(PlanetData[name])

\* Array.prototype.sort with (a, b) => score(b) - score(a): stable
RECURSIVE sortByScore(_, _)
sortByScore(f, names) ==
  IF names = <<>> THEN <<>>
  ELSE LET sorted == sortByScore(f, SubSeq(names, 1, Len(names) - 1))
           x == names[Len(names)]
           ahead == SelectSeq(sorted, LAMBDA y :
                      mlEarthLikeScoreSync(f, y) >= mlEarthLikeScoreSync(f, x))
           behind == SelectSeq(sorted, LAMBDA y :
                       mlEarthLikeScoreSync(f, y) < mlEarthLikeScoreSync(f, x))
       IN ahead \o <<x>> \o behind

\* what filterEarthLike(planets) returns
earthLike(f, names) ==
  sortByScore(f, SelectSeq(names, LAMBDA n : mlEarthLikeScoreSync(f, n) > 30))

\* filterEarthLike(planets): every planet without a cached prediction gets
\* one under way
filterEarthLike(f, l) ==
  [f EXCEPT !.pending = @ \cup {PlanetLists[l][i] : i \in
                {i \in 1..Len(PlanetLists[l]) : PlanetLists[l][i] \notin DOMAIN f.mlCache}},
            !.call = [fn |-> "filterEarthLike", list |-> l],
            !.result = earthLike(f, PlanetLists[l])]

\* memoizedFilterEarthLike(planets): the bucket of the array, or the
\* original filter
memoizedFilterEarthLike(f, l) ==
  IF l \in DOMAIN f.filterCache
  THEN [f EXCEPT !.call = [fn |-> "memoizedFilterEarthLike", list |-> l],
                 !.result = f.filterCache[l]]
  ELSE LET f1 == filterEarthLike(f, l)
       IN [f1 EXCEPT !.call = [fn |-> "memoizedFilterEarthLike", list |-> l],
                     !.filterCache = MapSet(@, l, f1.result)]

\* earthLikeScoreAsync(p) after its await: the prediction, or the
\* heuristic when there is none, goes to mlCache
earthLikeScoreAsync(f, name, score) ==
  [f EXCEPT !.mlCache = MapSet(@, name, score), !.pending = @ \ {name},
            !.call = [fn |-> "earthLikeScoreAsync", list |-> ""],
            !.result = <<>>]

\* a caller filters one of its arrays with the original filter
FilterOriginal ==
  /\ \E l \in DOMAIN PlanetLists : filters' = filterEarthLike(filters, l)
  /\ UNCHANGED <<clientVars, server, classifier, correlation>>

\* a caller filters one of its arrays with the memoized filter
FilterMemoized ==
  /\ \E l \in DOMAIN PlanetLists : filters' = memoizedFilterEarthLike(filters, l)
  /\ UNCHANGED <<clientVars, server, classifier, correlation>>

\* a background prediction resolves
MlResolved ==
  /\ \E name \in filters.pending :
       \E score \in MlScores \cup {heuristicEarthLikeScore(PlanetData[name])} :
         filters' = earthLikeScoreAsync(filters, name, score)
  /\ UNCHANGED <<clientVars, server, classifier, correlation>>

NextFilters == FilterOriginal \/ FilterMemoized \/ MlResolved

InitLib == InitClient /\ roomId = "" /\ server = NoRoom

InitFilters == InitLib /\ classifier = NoClassifier(MODEL_VERSION)

SpecFilters == InitFilters /\ [][NextFilters]_vars

\* ---------------------------------------------------------- mlClassifier.ts
\* the planet of mlClassifier.test.ts
TestPlanet == "Test-1"

\* the versions a manifest may carry
ManifestVersions == {"", "1.0.0", "1.1.0"}

\* keyForPlanet(planet)
keyForPlanet(c, planet) ==
  <<planet, IF c.loadedVersion # "" THEN c.loadedVersion ELSE MODEL_VERSION>>

\* a list without its i-th element
Without(s, i) == SubSeq(s, 1, i - 1) \o SubSeq(s, i + 1, Len(s))

\* predictSingle(planet) up to its first await: the cached prediction, the
\* promise in flight, or a new promise that waits in ensureModelsLoaded
predictSingle(c, planet) ==
  LET cacheKey == keyForPlanet(c, planet)
      counted == [c EXCEPT !.calls = @ + 1]
  IN IF cacheKey \in c.predictionCache
     THEN [counted EXCEPT !.returned = "cached"]
     ELSE IF cacheKey \in c.inFlight
     THEN [counted EXCEPT !.returned = "inflight"]
     ELSE [counted EXCEPT !.promises = Append(@, [key |-> cacheKey, at |-> "load"]),
                          !.inFlight = @ \cup {cacheKey},
                          !.returned = "promise"]

\* ensureModelsLoaded() returns for the i-th promise: the models were
\* loaded already, or they are loaded now and loadedVersion is the
\* version of the manifest
ensureModelsLoaded(c, i) ==
  [c EXCEPT !.loadedVersion =
              IF @ # "" THEN @
              ELSE IF c.manifest # "" THEN c.manifest ELSE MODEL_VERSION,
            !.promises[i].at = "tidy", !.returned = ""]

\* ensureModelsLoaded() throws for the i-th promise: the catch and the
\* finally of predictSingle
loadFailed(c, i) ==
  [c EXCEPT !.promises = Without(@, i),
            !.inFlight = @ \ {c.promises[i].key},
            !.loadFails = @ + 1, !.returned = ""]

\* the rest of the i-th promise: both models predict, the result is
\* cached under the key taken at the call, the finally
tidy(c, i) ==
  [c EXCEPT !.earthPredicts = @ + 1, !.weirdPredicts = @ + 1,
            !.predictionCache = @ \cup {c.promises[i].key},
            !.promises = Without(@, i),
            !.inFlight = @ \ {c.promises[i].key}, !.returned = ""]

\* clearCache()
clearCache(c) ==
  [c EXCEPT !.predictionCache = {}, !.inFlight = {}, !.cleared = TRUE,
            !.returned = ""]

otherVars == <<clientVars, server, filters, correlation>>

\* a caller: predict(planet)
Predict ==
  /\ classifier.calls < MaxPredict
  /\ classifier' = predictSingle(classifier, TestPlanet)
  /\ UNCHANGED otherVars

\* the manifest and the two models arrive
ModelsLoaded ==
  /\ \E i \in 1..Len(classifier.promises) :
       /\ classifier.promises[i].at = "load"
       /\ classifier' = ensureModelsLoaded(classifier, i)
  /\ UNCHANGED otherVars

\* the manifest or a model cannot be fetched
ModelsFailed ==
  /\ classifier.loadFails < MaxLoadFails
  /\ classifier.loadedVersion = ""
  /\ \E i \in 1..Len(classifier.promises) :
       /\ classifier.promises[i].at = "load"
       /\ classifier' = loadFailed(classifier, i)
  /\ UNCHANGED otherVars

\* a promise goes on after ensureModelsLoaded
Tidy ==
  /\ \E i \in 1..Len(classifier.promises) :
       /\ classifier.promises[i].at = "tidy"
       /\ classifier' = tidy(classifier, i)
  /\ UNCHANGED otherVars

\* a caller: clearCache()
ClearCache ==
  /\ ~classifier.cleared
  /\ classifier' = clearCache(classifier)
  /\ UNCHANGED otherVars

NextClassifier == Predict \/ ModelsLoaded \/ ModelsFailed \/ Tidy \/ ClearCache

InitClassifier ==
  /\ InitLib
  /\ classifier \in {NoClassifier(v) : v \in ManifestVersions}

SpecClassifier == InitClassifier /\ [][NextClassifier]_vars

\* ------------------------------- useCorrelationWorker, correlation.worker
\* a CorrelationResponse: progress is "p != null", matrix is "a matrix is
\* attached"
Response(id, success, matrix, progress) ==
  [id |-> id, success |-> success, matrix |-> matrix, progress |-> progress]

\* resolve(matrix) or reject(e) of the promise of request id: a promise
\* settles once
settle(k, id, how, cause) ==
  IF k.promise[id] = "pending"
  THEN [k EXCEPT !.promise[id] = how, !.by[id] = cause]
  ELSE k

\* new Worker(...) in startWorker; throws: the constructor raises
startWorker(k, throws) ==
  IF ~throws THEN [k EXCEPT !.workerRef = TRUE, !.retry = FALSE]
  ELSE IF k.attempts + 1 < 3
  THEN [k EXCEPT !.attempts = @ + 1, !.retry = TRUE]
  ELSE [k EXCEPT !.attempts = @ + 1, !.retry = FALSE,
                 !.error = "Failed to initialize correlation worker"]

\* the cleanup of the effect
cleanup(k) ==
  [k EXCEPT !.effect = "cleaned", !.workerRef = FALSE, !.timeouts = {},
            !.pendingRef = {}, !.requests = <<>>, !.responses = <<>>]

\* SYNC_FALLBACK in its try: resolve, or reject when it raises
fallback(k, id, throws) ==
  IF throws THEN settle(k, id, "rejected", "fallback")
  ELSE settle(k, id, "resolved", "fallback")

\* calculateCorrelations(planets, metrics) with the request id it drew
calculateCorrelations(k, id, throws) ==
  LET k1 == [k EXCEPT !.error = "", !.promise[id] = "pending",
                      !.timeouts = @ \cup {id}, !.pendingRef = @ \cup {id}]
  IN IF k1.workerRef
     THEN [k1 EXCEPT !.requests = Append(@, id)]
     ELSE fallback([k1 EXCEPT !.timeouts = @ \ {id}], id, throws)

\* the callback of the 30 s timeout of request id
timedOut(k, id, throws) ==
  fallback([k EXCEPT !.timeouts = @ \ {id}, !.pendingRef = @ \ {id}], id, throws)

\* the progress messages of calculateMatrix: n of them
progressOf(id, n) == [i \in 1..n |-> Response(id, TRUE, FALSE, TRUE)]

\* self.onmessage of the worker for one request: n progress messages, then
\* the matrix, or the failure when calculateMatrix raised after them
workerOnmessage(k, n, throws) ==
  LET id == Head(k.requests)
      last == IF throws THEN Response(id, FALSE, FALSE, FALSE)
              ELSE Response(id, TRUE, TRUE, FALSE)
  IN [k EXCEPT !.requests = Tail(@),
               !.responses = @ \o progressOf(id, n) \o <<last>>]

\* worker.onmessage of the hook for the first message in flight
hookOnmessage(k) ==
  LET msg == Head(k.responses)
      k1 == [k EXCEPT !.responses = Tail(@)]
  IN IF msg.id \in k1.pendingRef
     THEN LET k2 == [k1 EXCEPT !.timeouts = @ \ {msg.id},
                               !.pendingRef = @ \ {msg.id}]
          IN IF ~msg.success
             THEN settle([k2 EXCEPT !.error = "Worker failed"], msg.id,
                         "rejected", "failure")
             ELSE IF msg.matrix
             THEN settle(k2, msg.id, "resolved", "matrix")
             ELSE k2
     ELSE k1

hookVars == <<clientVars, server, filters, classifier>>

\* the effect of the hook runs
StartWorker ==
  /\ correlation.effect = "none"
  /\ \E throws \in BOOLEAN :
       correlation' = startWorker([correlation EXCEPT !.effect = "ran"], throws)
  /\ UNCHANGED hookVars

\* the timeout of a failed start runs startWorker again
RetryWorker ==
  /\ correlation.effect = "ran"
  /\ correlation.retry
  /\ \E throws \in BOOLEAN : correlation' = startWorker(correlation, throws)
  /\ UNCHANGED hookVars

\* the component is unmounted
Cleanup ==
  /\ correlation.effect = "ran"
  /\ correlation' = cleanup(correlation)
  /\ UNCHANGED hookVars

\* a caller asks for a matrix
Calculate ==
  /\ correlation.effect # "none"
  /\ \E id \in RequestIds :
       /\ correlation.promise[id] = "none"
       /\ \A j \in RequestIds : j < id => correlation.promise[j] # "none"
       /\ \E throws \in BOOLEAN :
            correlation' = calculateCorrelations(correlation, id, throws)
  /\ UNCHANGED hookVars

\* the worker takes a request
WorkerRuns ==
  /\ correlation.requests # <<>>
  /\ \E throws \in BOOLEAN :
       \E n \in (IF throws THEN 0 ELSE 1)..MaxProgress :
         correlation' = workerOnmessage(correlation, n, throws)
  /\ UNCHANGED hookVars

\* a message of the worker reaches the hook
WorkerMessage ==
  /\ correlation.responses # <<>>
  /\ correlation' = hookOnmessage(correlation)
  /\ UNCHANGED hookVars

\* 30 s after a call
Timeout ==
  /\ \E id \in correlation.timeouts :
       \E throws \in BOOLEAN : correlation' = timedOut(correlation, id, throws)
  /\ UNCHANGED hookVars

NextCorrelation ==
  \/ StartWorker
  \/ RetryWorker
  \/ Cleanup
  \/ Calculate
  \/ WorkerRuns
  \/ WorkerMessage
  \/ Timeout

\* the worker answers every request, the host delivers every message and
\* runs every timeout
SpecCorrelation ==
  /\ InitFilters
  /\ [][NextCorrelation]_vars
  /\ WF_vars(RetryWorker)
  /\ WF_vars(WorkerRuns)
  /\ WF_vars(WorkerMessage)
  /\ WF_vars(Timeout)

\* ------------------------------------------------------------------ claims
\* the sockets that were constructed
Transports(S) == {s \in 1..Len(S) : S[s].readyState # "threw"}

\* the positions of an output that carry a join
JoinsIn(o) == {i \in 1..Len(o) : o[i].data[2].type = "join"}

\* C1: after disconnect(), and until connect() or reconnect() is called
\* again, no task constructs a new transport and no task transmits a join.
C1_DisconnectIsFinal ==
  [][disconnected /\ disconnected'
       => Transports(sockets') = Transports(sockets) /\ JoinsIn(out') = {}]_vars

\* C2: with a transport that never opens, the N-th delay handed to
\* setTimeout is min(1000 * 2^(N-1), 15000); the first five are 1000, 2000,
\* 4000, 8000, 15000.
C2_BackoffDelays ==
  \A n \in 1..Len(delays) :
    /\ delays[n] = Min(1000 * (2 ^ (n - 1)), 15000)
    /\ n <= 5 => delays[n] = <<1000, 2000, 4000, 8000, 15000>>[n]

\* C2 witness: five reconnects were scheduled and the fifth is capped
C2_FiveRetries == Len(delays) >= 5 /\ delays[5] = 15000

\* C3: after send(m), called by the caller or by the heartbeat, m was
\* handed to the open transport or is the last entry of the outbound queue;
\* it is queued when the transport is not open and when the transmit raised.
C3_SendNeverLoses ==
  lastOp.op \in {"send", "heartbeat"} /\ lastOp.msg # NoMsg =>
    LET m == lastOp.msg
        s == lastOp.sock
        isOpen == s # 0 /\ sockets[s].readyState = "open"
        handed == isOpen /\ out = <<[sock |-> s, data |-> Serialize(m)]>>
        queued == messageQueue # <<>> /\ messageQueue[Len(messageQueue)] = m
    IN /\ handed \/ queued
       /\ threw => queued
       /\ ~isOpen => queued

\* C3 witness: a send() whose transmit raised, the message queued
C3_SendThrew ==
  /\ lastOp.op = "send"
  /\ threw
  /\ messageQueue # <<>>
  /\ messageQueue[Len(messageQueue)] = lastOp.msg

\* C4: when a transport opens and no transmit raises, the queued messages
\* go out on that transport, each once and in queue order, and the queue is
\* left empty (the join that the continuation sends may follow).
C4_FlushOnOpen ==
  [][lastOp'.op = "open" /\ ~threw' =>
       LET s == lastOp'.sock
           q == messageQueue
       IN /\ Len(out') \in {Len(q), Len(q) + 1}
          /\ \A i \in 1..Len(q) : out'[i] = [sock |-> s, data |-> Serialize(q[i])]
          /\ Len(out') = Len(q) + 1 => out'[Len(q) + 1].data[2].type = "join"
          /\ \/ messageQueue' = <<>>
             \/ Len(messageQueue') = 1 /\ messageQueue'[1].type = "join"]_vars

\* no socket was constructed while the one it replaced was connecting or open
NoOverlap == \A s \in 1..Len(sockets) : ~sockets[s].overlaps

\* disconnect() never found a live transport to close
NoneDropped == \A s \in 1..Len(sockets) : ~sockets[s].dropped

\* C5: whenever the client's transport is open, a heartbeat interval is
\* active.  Stated for a client that has a user (connect() was called) and
\* never had two live sockets at once.
C5_HeartbeatWhileOpen ==
  isConnected(This) /\ user # NoUser /\ NoOverlap =>
    heartbeatTimer # 0 /\ heartbeatTimer \in intervals

\* C6: once the client's transport has closed (no disconnect() is ever
\* called), the client eventually has an open transport on which it has
\* transmitted a join.
C6_Recovers ==
  (ws # 0 /\ sockets[ws].readyState = "closed")
    ~> (isConnected(This) /\ sockets[ws].joined)

\* C6 witness: a transport opened by the reconnect timer, after a close,
\* has carried the join
C6_Recovered ==
  /\ isConnected(This)
  /\ sockets[ws].cont = "timer"
  /\ sockets[ws].joined
  /\ \E s \in 1..Len(sockets) : sockets[s].readyState = "closed"

\* C7: the promise of connect() is resolved once its socket is open and
\* rejected once its socket failed to open; it is not pending after the
\* socket closed.
C7_ConnectSettles ==
  \A s \in 1..Len(sockets) :
    sockets[s].cont = "connect" =>
      /\ sockets[s].readyState = "open" => sockets[s].promise = "resolved"
      /\ sockets[s].readyState = "threw" => sockets[s].promise = "rejected"
      /\ sockets[s].readyState = "closed" => sockets[s].promise # "pending"

\* C8: at most one reconnect timeout is pending.
C8_OneReconnectTimer == Cardinality(timers) <= 1

\* C8 witness: a second socket closed while the timeout armed by the first
\* close was still pending
C8_SecondCloseWhilePending ==
  /\ lastOp.op = "close"
  /\ Cardinality({s \in 1..Len(sockets) : sockets[s].readyState = "closed"}) >= 2
  /\ Len(delays) = 1
  /\ reconnectAttempts = 1
  /\ timers # {}

\* the delays from position from on never decrease
NonDecreasing(d, from) == \A i \in from..(Len(d) - 1) : d[i] <= d[i + 1]

\* C9 as claimed: the counter counts the schedulings since the last reset
\* (open or disconnect()), the first delay after an open is 1000 ms, and the
\* delays between two opens never decrease.  Stated for the runs in which
\* disconnect() found no live transport to close and the client never had
\* two live sockets at once, so that no delay in them was scheduled by the
\* close of a transport that disconnect() closed or that was replaced.
C9_DelaysNeverDecrease ==
  NoneDropped /\ NoOverlap =>
    /\ reconnectAttempts = Len(delays) - cut
    /\ delays # <<>> => delays[1] = 1000
    /\ NonDecreasing(delays, 1)

\* C9 as amended: the delays between two opens never decrease as long as
\* no disconnect() comes between them.
C9_DelaysNeverDecreaseUntilDisconnect ==
  /\ reconnectAttempts = Len(delays) - cut
  /\ delays # <<>> => delays[1] = 1000
  /\ NonDecreasing(delays, cut + 1)

\* C9 witness: two reconnects scheduled since the last open, none before
\* the last disconnect()
C9_TwoRetriesAfterOpen ==
  /\ \E s \in 1..Len(sockets) : sockets[s].promise = "resolved"
  /\ Len(delays) >= 2
  /\ cut = 0

\* C10: after disconnect() there is no heartbeat interval, no reconnect
\* timeout, the attempt counter is 0 and there is no transport; a second
\* disconnect() changes nothing.
C10_DisconnectIdempotent ==
  lastOp.op = "disconnect" =>
    /\ heartbeatTimer = 0 /\ intervals = {}
    /\ reconnectTimer = 0 /\ timers = {}
    /\ reconnectAttempts = 0
    /\ ws = 0
    /\ disconnect(This) = [This EXCEPT !.out = <<>>, !.threw = FALSE]

\* C10 witness: disconnect() closed a connecting transport after a
\* reconnect had been scheduled
C10_DisconnectDuringRetry ==
  /\ lastOp.op = "disconnect"
  /\ lastOp.sock # 0
  /\ sockets[lastOp.sock].readyState = "closing"
  /\ sockets[lastOp.sock].cont = "timer"

\* the calls that a loop over the callbacks hs makes for msg, when each is
\* called once and in order
EachOnce(hs, tag, msg) == [i \in 1..Len(hs) |-> [h |-> hs[i], tag |-> tag, msg |-> msg]]

\* the client has no transport, or its transport is closed
TransportClosed == ws = 0 \/ sockets[ws].readyState = "closed"

\* C11: the close of a transport stops the heartbeat, calls every
\* 'disconnected' listener once, and leaves a reconnect timeout pending; and
\* no heartbeat is enqueued while the transport is closed: no heartbeat
\* interval is active while the client's transport is closed, once no
\* reconnect timeout is pending (a pending timeout, of 15 s at most, runs
\* before the next heartbeat, 30 s after the interval started).
C11_CloseStopsHeartbeat ==
  /\ lastOp.op = "close" =>
       /\ heartbeatTimer = 0 /\ intervals = {}
       /\ invoked = EachOnce(eventHandlers["disconnected"], "disconnected", NoServerMsg)
       /\ reconnectTimer # 0 /\ reconnectTimer \in timers
  /\ TransportClosed /\ timers = {} => heartbeatTimer = 0

\* C12: an inbound message with tag T calls the subscribers of T, each once
\* and in registration order, and no other subscriber; a subscriber that
\* raises does not end the delivery.
C12_FanOut ==
  lastOp.op = "message" /\ received[1] = "json" /\ received[2].type \in Tags =>
    invoked = EachOnce(handlers[received[2].type], received[2].type, received[2])

\* C12 witness: a message went to two subscribers, the first of which
\* raises, while another tag had a subscriber too
C12_RaisingFirst ==
  /\ lastOp.op = "message"
  /\ Len(invoked) = 2
  /\ Raises(invoked[1].h)
  /\ \E tag \in Tags : tag # received[2].type /\ handlers[tag] # <<>>

\* a payload that is not JSON, has no properties, has no tag or an unknown
\* one, or has a tag nobody subscribes to
Malformed(data, hs) ==
  \/ data[1] \in {"text", "null"}
  \/ data[2].type \notin Tags
  \/ hs[data[2].type] = <<>>

\* C13: a malformed or unknown payload calls no subscriber, raises nothing
\* and leaves the connection, the queue, the timers and the registries as
\* they were.
C13_MalformedDropped ==
  [][lastOp'.op = "message" /\ Malformed(received', handlers) =>
       /\ invoked' = <<>>
       /\ returned' = ""
       /\ out' = <<>>
       /\ UNCHANGED <<roomId, user, storage, ws, sockets, messageQueue,
                      heartbeatTimer, intervals, reconnectTimer, timers,
                      reconnectAttempts, handlers, eventHandlers, provider>>]_vars

\* C13 witness: a text that is not JSON arrived on an open socket while a
\* subscriber was registered and the heartbeat was running
C13_GarbageArrived ==
  /\ lastOp.op = "message"
  /\ received[1] = "text"
  /\ \E tag \in Tags : handlers[tag] # <<>>
  /\ heartbeatTimer # 0

\* C14: once the client has a user, its id and the room never change, and
\* every join that is transmitted or queued carries that id and that room:
\* the join of connect() and the re-joins after the reconnect timer and
\* after reconnect() alike.
C14_SameIdentityInJoins ==
  [][/\ user # NoUser => user'.id = user.id /\ roomId' = roomId
     /\ \A i \in 1..Len(out') :
          out'[i].data[2].type = "join" =>
            /\ out'[i].data[2].user.id = user'.id
            /\ out'[i].data[2].roomId = roomId'
     /\ \A i \in 1..Len(messageQueue') :
          messageQueue'[i].type = "join" =>
            /\ messageQueue'[i].user.id = user'.id
            /\ messageQueue'[i].roomId = roomId']_vars

\* C14 witness: the transports opened by connect(), by the reconnect timer
\* and by reconnect() have each carried a join, and updatePresence() has
\* changed the user in between
C14_RejoinedTwice ==
  /\ \A kind \in {"connect", "timer", "reconnect"} :
       \E s \in 1..Len(sockets) : sockets[s].cont = kind /\ sockets[s].joined
  /\ user.selectedPlanetId # ""

Delivered(tag, rcv, op, hs, sub) ==
  /\ op.op = "message"
  /\ rcv[1] = "json"
  /\ rcv[2].type = tag
  /\ \E i \in 1..Len(hs[tag]) : hs[tag][i] = sub

\* C16: a conflict for the planet of the outstanding select attempt removes
\* the user from the local entry of that planet (the entry goes when it is
\* empty, the other entries stay), sets lastConflict to the planetId,
\* lockedBy and reason of the message and clears the attempt; a conflict
\* that finds no attempt, or the attempt of another planet, changes nothing.
C16_ConflictRollsBack ==
  [][Delivered("conflict", received', lastOp', handlers, "unsubConflict") /\ user # NoUser =>
       LET msg == received'[2]
           attempt == provider.lastSelectAttemptRef
           old == provider.selectedPlanets
           new == provider'.selectedPlanets
           before == IF msg.planetId \in DOMAIN old THEN old[msg.planetId] ELSE <<>>
           rest == SelectSeq(before, LAMBDA u : u # user.id)
       IN IF attempt # "" /\ msg.planetId = attempt
          THEN /\ rest = <<>> => msg.planetId \notin DOMAIN new
               /\ rest # <<>> => msg.planetId \in DOMAIN new /\ new[msg.planetId] = rest
               /\ DOMAIN new \ {msg.planetId} = DOMAIN old \ {msg.planetId}
               /\ \A q \in DOMAIN old \ {msg.planetId} : new[q] = old[q]
               /\ provider'.lastConflict =
                    [planetId |-> msg.planetId, lockedBy |-> msg.lockedBy,
                     reason |-> msg.reason]
               /\ provider'.lastSelectAttemptRef = ""
          ELSE provider' = provider /\ user' = user]_vars

\* C16 witness: a conflict for p1 has been handled after selectPlanet(p1):
\* the user is gone from the entry of p1, where u2 stays, the conflict is
\* on display and there is no outstanding attempt
C16_RolledBack ==
  /\ Delivered("conflict", received, lastOp, handlers, "unsubConflict")
  /\ received[2].planetId = "p1"
  /\ provider.lastConflict = [planetId |-> "p1", lockedBy |-> "u2", reason |-> "locked"]
  /\ provider.lastSelectAttemptRef = ""
  /\ DOMAIN provider.selectedPlanets = {"p1"}
  /\ provider.selectedPlanets["p1"] = <<"u2">>
  /\ user.selectedPlanetId = ""

\* C17: after a selection_state is handled, the local selectedPlanets is
\* the selected map of the message, whatever it was before.
C17_SelectionStateWins ==
  Delivered("selection_state", received, lastOp, handlers, "unsubSelection") =>
    /\ DOMAIN provider.selectedPlanets = DOMAIN received[2].selected
    /\ \A pid \in DOMAIN received[2].selected :
         provider.selectedPlanets[pid] = received[2].selected[pid]

\* C17 witness: a selection_state without the user arrived after the user
\* had selected p2 and had been rolled back from another planet; the local
\* map is the broadcast one, without p2
C17_OptimisticOverwritten ==
  /\ Delivered("selection_state", received, lastOp, handlers, "unsubSelection")
  /\ received[2].selected = [p \in {"p1"} |-> <<"u2">>]
  /\ user.selectedPlanetId = "p2"
  /\ provider.lastConflict # NoConflict
  /\ provider.selectedPlanets = [p \in {"p1"} |-> <<"u2">>]

\* send(m) was called once in the step: m went to the transport or to the
\* end of the queue, and nothing else did
HandedOnce(m) ==
  \/ out' = <<[sock |-> ws, data |-> Serialize(m)]>> /\ messageQueue' = messageQueue
  \/ out' = <<>> /\ messageQueue' = Append(messageQueue, m)

\* C18: selectPlanet(P) with a client and a user leaves the user exactly
\* once in the local entry of P, the others of that entry and the other
\* entries as they were, records P as the outstanding attempt, hands one
\* select with P and the id of the user to the client and returns true;
\* without a client or a user it returns false and changes nothing.
C18_SelectIsOptimistic ==
  [][lastOp'.op = "selectPlanet" =>
       LET P == lastOp'.msg.planetId
           old == provider.selectedPlanets
           new == provider'.selectedPlanets
           before == IF P \in DOMAIN old THEN old[P] ELSE <<>>
       IN IF provider.clientRef /\ user # NoUser
          THEN /\ P \in DOMAIN new
               /\ Cardinality({i \in 1..Len(new[P]) : new[P][i] = user.id}) = 1
               /\ SelectSeq(new[P], LAMBDA u : u # user.id)
                    = SelectSeq(before, LAMBDA u : u # user.id)
               /\ DOMAIN new = DOMAIN old \cup {P}
               /\ \A q \in DOMAIN old \ {P} : new[q] = old[q]
               /\ provider'.lastSelectAttemptRef = P
               /\ HandedOnce(PlanetMsg("select", P, user.id))
               /\ returned' = "true"
          ELSE /\ returned' = "false"
               /\ provider' = provider
               /\ user' = user
               /\ out' = <<>>
               /\ messageQueue' = messageQueue
               /\ sockets' = sockets]_vars

\* C18 witness: selectPlanet(p1) was called when the entry of p1 had u2
\* and the user in it: the user is in it once, and the select went out
C18_SelectedAgain ==
  /\ lastOp.op = "selectPlanet"
  /\ returned = "true"
  /\ provider.selectedPlanets = [p \in {"p1"} |-> <<"u2", "g1">>]
  /\ provider.lastSelectAttemptRef = "p1"
  /\ Len(out) = 1
  /\ out[1].data[2] = PlanetMsg("select", "p1", "g1")

\* C19: updateCamera() leaves every mirror of the provider as it was, and
\* with a client it hands one camera message to the client.
C19_CameraFireAndForget ==
  [][lastOp'.op = "updateCamera" =>
       /\ provider' = provider
       /\ provider.clientRef =>
            HandedOnce(CameraMsg(lastOp'.msg.planetId, lastOp'.msg.camera, user.id))]_vars

\* C19 witness: a camera message was transmitted by updateCamera() while
\* the provider mirrors a selection
C19_CameraSent ==
  /\ lastOp.op = "updateCamera"
  /\ Len(out) = 1
  /\ out[1].data[2].type = "camera"
  /\ provider.selectedPlanets # EmptyMap

\* the tags of the messages that ask the server for a change
Mutating == {"select", "unselect", "join_viewer", "leave_viewer", "camera", "heartbeat"}

\* C20: every select, unselect, join_viewer, leave_viewer, camera and
\* heartbeat that is transmitted or waits in the queue carries the id of
\* the current user of the client.
C20_ActingUserId ==
  /\ \A i \in 1..Len(out) :
       out[i].data[2].type \in Mutating =>
         user # NoUser /\ out[i].data[2].userId = user.id
  /\ \A i \in 1..Len(messageQueue) :
       messageQueue[i].type \in Mutating =>
         user # NoUser /\ messageQueue[i].userId = user.id

\* C20 witness: a camera message that had waited in the queue was
\* transmitted, after the join, on the transport the reconnect timer opened
C20_QueuedCameraFlushed ==
  /\ lastOp.op = "open"
  /\ sockets[lastOp.sock].cont = "timer"
  /\ \E i \in 1..Len(out) : out[i].data[2].type = "camera"
  /\ \E i \in 1..Len(out) : out[i].data[2].type = "join"

\* C21: the function subscribe(tag, h) returned takes h out of the
\* subscribers of tag and leaves the others of tag, in their order, and
\* those of the other tags; a later message calls no h whose function was
\* called, and calls every subscriber its tag still has.
C21_UnsubscribeHandle ==
  [][/\ lastOp'.op = "unsubscribe" =>
          \E tag \in Tags, h \in Callbacks :
            /\ Has(handlers[tag], h)
            /\ handlers' = [handlers EXCEPT ![tag] = SelectSeq(@, LAMBDA x : x # h)]
            /\ eventHandlers' = eventHandlers
     /\ lastOp'.op = "message" =>
          /\ \A i \in 1..Len(invoked') :
               <<invoked'[i].tag, invoked'[i].h>> \notin released
          /\ received'[1] = "json" /\ received'[2].type \in Tags =>
               \A i \in 1..Len(handlers[received'[2].type]) :
                 \E j \in 1..Len(invoked') :
                   invoked'[j].h = handlers[received'[2].type][i]]_vars

\* C21 witness: a presence arrived after the function of (presence, h1)
\* was called: h2 was called for it, h1 was not, and h1 is still a
\* subscriber of conflict
C21_OthersStillCalled ==
  /\ lastOp.op = "message"
  /\ received[2].type = "presence"
  /\ <<"presence", "h1">> \in released
  /\ Has(handlers["conflict"], "h1")
  /\ Len(invoked) = 1
  /\ invoked[1].h = "h2"

\* uid is a member of the room, and the connection c joined the room
Known(c, uid) ==
  /\ c \in server.joined
  /\ \E i \in 1..Len(server.members) : server.members[i].id = uid

\* the server handled a message with this tag of a member, in the step
Accepted(tag) ==
  /\ server'.req.msg.type = tag
  /\ Known(server'.req.conn, server'.req.msg.userId)

\* the others that hold planet p
HoldersBut(p, uid) == SelectSeq(server.selected[p], LAMBDA x : x # uid)

\* C22: in exclusive mode, a select of a planet another member holds sends
\* one conflict, with the planet and the holder, to the requester and
\* nothing to anybody else, and changes no selection; the unselect of the
\* holder empties the entry, and a select of a planet nobody else holds
\* makes the requester its only holder, without a conflict.
C22_ExclusiveLock ==
  [][server.exclusive =>
       /\ Accepted("select") =>
            LET m == server'.req.msg
                holders == HoldersBut(m.planetId, m.userId)
            IN IF holders # <<>>
               THEN /\ Len(server'.sent) = 1
                    /\ server'.sent[1].to = server'.req.conn
                    /\ server'.sent[1].msg.type = "conflict"
                    /\ server'.sent[1].msg.planetId = m.planetId
                    /\ holders = <<server'.sent[1].msg.lockedBy>>
                    /\ server'.selected = server.selected
               ELSE /\ server'.selected[m.planetId] = <<m.userId>>
                    /\ \A i \in 1..Len(server'.sent) :
                         server'.sent[i].msg.type # "conflict"
       /\ Accepted("unselect") /\ server.selected[server'.req.msg.planetId]
                                    = <<server'.req.msg.userId>> =>
            server'.selected[server'.req.msg.planetId] = <<>>]_vars

\* C22 witness: u2 asked for p1, which u1 holds, in a room where u3 is
\* too: one conflict, for u2
C22_ConflictForRequester ==
  /\ server.exclusive
  /\ server.req = [conn |-> "c2", msg |-> PlanetMsg("select", "p1", "u2")]
  /\ server.selected["p1"] = <<"u1">>
  /\ IsMember(server, "u3")
  /\ server.sent = <<[to |-> "c2", msg |-> ConflictMsg("p1", "u1", "locked")]>>

\* C29: in non-exclusive mode, a select of a member adds the member to the
\* holders of the planet, keeps the holders it had, and sends the new
\* selection_state to every member and nothing else.
C29_ConcurrentSelections ==
  [][~server.exclusive /\ Accepted("select") =>
       LET m == server'.req.msg
       IN /\ Has(server'.selected[m.planetId], m.userId)
          /\ HoldersBut(m.planetId, m.userId)
               = SelectSeq(server'.selected[m.planetId], LAMBDA x : x # m.userId)
          /\ server'.sent = [i \in 1..Len(server'.members) |->
                               [to |-> server'.members[i].conn,
                                msg |-> SelectionStateMsg(server'.selected)]]]_vars

\* C29 witness: u1 and then u2 selected p1; both hold it, and the three
\* members were sent the selection_state
C29_BothSelected ==
  /\ ~server.exclusive
  /\ server.req.msg = PlanetMsg("select", "p1", "u2")
  /\ server.selected["p1"] = <<"u1", "u2">>
  /\ Len(server.sent) = 3
  /\ \A i \in 1..3 : server.sent[i].msg.type = "selection_state"

\* C23: no two members of the room have the same UserId, and the UserIds
\* of the members are those that joined and did not leave since; a join of
\* a UserId that is a member replaces its entry.
C23_MembershipIsASet ==
  /\ \A i, j \in 1..Len(server.members) :
       i # j => server.members[i].id # server.members[j].id
  /\ {server.members[i].id : i \in 1..Len(server.members)} = server.present
  /\ server.req.msg.type = "join" =>
       \E i \in 1..Len(server.members) :
         server.members[i] = Member(server.req.conn, server.req.msg.user, server.now)

\* C23 witness: u1, a member since its join on c1, joined again on c4 as
\* a viewer of p1: its entry, still the first of two, is the new one
C23_RejoinReplaced ==
  /\ server.req = [conn |-> "c4", msg |-> JoinMsg("R1", Presence("u1", "p1"))]
  /\ "c1" \in server.joined
  /\ MemberIds(server) = <<"u1", "u2">>
  /\ server.members[1].conn = "c4"
  /\ server.members[1].isViewingPlanet = "p1"

\* the tags of the messages a member sends after its join
AfterJoin == {"leave", "select", "unselect", "join_viewer", "leave_viewer",
              "camera", "heartbeat"}

\* C27: a message whose userId is not a member of the room, or whose
\* connection did not join it, is answered with one error on that
\* connection and changes no member, no selection and no camera.
C27_UnknownUserRejected ==
  [][/\ server'.req.msg.type \in AfterJoin
     /\ ~Known(server'.req.conn, server'.req.msg.userId)
     => /\ Len(server'.sent) = 1
        /\ server'.sent[1].to = server'.req.conn
        /\ server'.sent[1].msg.type = "error"
        /\ server'.members = server.members
        /\ server'.selected = server.selected
        /\ server'.camerasInPlanet = server.camerasInPlanet]_vars

\* C27 witness: c1, that joined as u1, sent a camera in the name of u3,
\* that never joined, while u1 and u2 hold p1 and u2 views it
C27_StrangerRejected ==
  /\ server.req = [conn |-> "c1", msg |-> CameraMsg("p1", "cam1", "u3")]
  /\ Len(server.sent) = 1
  /\ server.sent[1].msg.type = "error"
  /\ server.selected["p1"] # <<>>
  /\ DOMAIN server.camerasInPlanet["p1"] # {}
  /\ ~IsMember(server, "u3")

\* C24: every userId among the holders of a planet, and every userId with
\* a camera entry of a planet, is a member of the room, whatever leaves,
\* disconnects and expiries there were.
C24_OnlyMembersInMaps ==
  \A p \in RoomPlanets :
    /\ \A i \in 1..Len(server.selected[p]) :
         \E j \in 1..Len(server.members) :
           server.members[j].id = server.selected[p][i]
    /\ \A uid \in DOMAIN server.camerasInPlanet[p] :
         \E j \in 1..Len(server.members) : server.members[j].id = uid

\* C24 witness: the tick removed u1, that held p1 and viewed it, from a
\* room where u2 holds and views p1 too
C24_ExpiredHolderPruned ==
  /\ server.req.msg.type = "tick"
  /\ MemberIds(server) = <<"u2">>
  /\ server.selected["p1"] = <<"u2">>
  /\ DOMAIN server.camerasInPlanet["p1"] = {"u2"}
  /\ \E i \in 1..Len(server.sent) : server.sent[i].msg.type = "selection_state"

\* the messages with this tag among those sent to connection c
SentTo(sent, c, tag) == {i \in 1..Len(sent) : sent[i].to = c /\ sent[i].msg.type = tag}

\* C26: a tick of the tracker removes the members whose lastSeen is older
\* than 90 s and no other, a member seen less than 30 s ago in particular;
\* the removed are in no selection and no camera map afterwards, and every
\* member that stays is sent one presence per removal, the last of which
\* lists the members that stay.
C26_Expiry ==
  [][server'.req.msg.type = "tick" =>
       /\ \A i \in 1..Len(server.members) :
            LET x == server.members[i]
                stays == \E j \in 1..Len(server'.members) : server'.members[j] = x
            IN /\ server.now - x.lastSeen > 90000 => ~stays
               /\ server.now - x.lastSeen <= 90000 => stays
               /\ server.now - x.lastSeen < 30000 => stays
               /\ ~stays => \A p \in RoomPlanets :
                              /\ ~Has(server'.selected[p], x.id)
                              /\ x.id \notin DOMAIN server'.camerasInPlanet[p]
       /\ Len(server'.members) <= Len(server.members)
       /\ \A j \in 1..Len(server'.members) :
            LET mine == SentTo(server'.sent, server'.members[j].conn, "presence")
            IN /\ Cardinality(mine) = Len(server.members) - Len(server'.members)
               /\ \A i \in mine :
                    (\A k \in mine : k <= i) =>
                      server'.sent[i].msg.users = MemberIds(server')]_vars

\* C26 witness: a tick removed u1, last seen more than 90 s ago, and left
\* u2, whose heartbeat was 15 s ago, with one presence that lists u2 alone
C26_OneExpiredOneKept ==
  /\ server.req.msg.type = "tick"
  /\ MemberIds(server) = <<"u2">>
  /\ server.now - server.members[1].lastSeen = 15000
  /\ Cardinality(SentTo(server.sent, "c2", "presence")) = 1
  /\ \E i \in 1..Len(server.sent) : server.sent[i].msg = PresenceMsg(<<"u2">>)

\* C25: a camera of a member is sent on, with the CameraState it came
\* with, once to every other member that views the planet, and to nobody
\* else: not to its sender, not to a member that views another planet or
\* none.
C25_CameraRelay ==
  [][Accepted("camera") =>
       LET m == server'.req.msg
           viewers == {i \in 1..Len(server.members) :
                         /\ server.members[i].id # m.userId
                         /\ server.members[i].isViewingPlanet = m.planetId}
       IN /\ \A i \in 1..Len(server'.sent) :
               /\ server'.sent[i].msg.type = "camera"
               /\ server'.sent[i].msg.camera = m.camera
               /\ server'.sent[i].msg.planetId = m.planetId
               /\ server'.sent[i].msg.userId = m.userId
               /\ server'.sent[i].to # server'.req.conn
               /\ \E j \in viewers : server.members[j].conn = server'.sent[i].to
          /\ \A j \in viewers :
               Cardinality(SentTo(server'.sent, server.members[j].conn, "camera")) = 1]_vars

\* C25 witness: u1 sent cam2 for p1, that u2 views and u3 does not, being
\* a member: u2 alone was sent it
C25_RelayedToCoViewer ==
  /\ server.req = [conn |-> "c1", msg |-> CameraMsg("p1", "cam2", "u1")]
  /\ Len(server.members) = 3
  /\ \E i \in 1..3 : server.members[i].id = "u3" /\ server.members[i].isViewingPlanet = "p2"
  /\ \E i \in 1..3 : server.members[i].id = "u1" /\ server.members[i].isViewingPlanet = "p1"
  /\ server.sent = <<[to |-> "c2", msg |-> CameraUpdate("p1", "cam2", "u1")]>>

\* C28: camerasInPlanet[p] has an entry for a user only if the user is a
\* member whose isViewingPlanet is p.
C28_CamerasOnlyOfViewers ==
  \A p \in RoomPlanets :
    \A uid \in DOMAIN server.camerasInPlanet[p] :
      \E i \in 1..Len(server.members) :
        server.members[i].id = uid /\ server.members[i].isViewingPlanet = p

\* C30: memoizedFilterEarthLike(planets) returns the planets that
\* filterEarthLike(planets) returns at that point, in the same order.
C30_MemoMatchesOriginal ==
  filters.call.fn = "memoizedFilterEarthLike" =>
    filters.result = earthLike(filters, PlanetLists[filters.call.list])

\* C31: as long as clearCache() has not been called, the earth-like
\* model and the weirdness model have each predicted at most once for the
\* planet, whatever version the manifest carries.
C31_PredictedOnce ==
  ~classifier.cleared =>
    classifier.earthPredicts <= 1 /\ classifier.weirdPredicts <= 1

\* C32: in the task in which a transport opens, the first message
\* transmitted on that transport is the join; no queued message goes out
\* before it.
C32_JoinFirst ==
  (lastOp.op = "open" /\ out # <<>> /\ out[1].sock = lastOp.sock) =>
    out[1].data[2].type = "join"

\* C33: at most one transport of the client is connecting or open.
C33_SingleTransport ==
  Cardinality({s \in 1..Len(sockets) :
                 sockets[s].readyState \in {"connecting", "open"}}) <= 1

\* C34: a conflict that finds no user, no outstanding attempt, or the
\* attempt of another planet leaves selectedPlanets, lastConflict and the
\* attempt as they were.
C34_ConflictFrame ==
  [][(/\ Delivered("conflict", received', lastOp', handlers, "unsubConflict")
      /\ \/ user = NoUser
         \/ provider.lastSelectAttemptRef = ""
         \/ received'[2].planetId # provider.lastSelectAttemptRef) =>
       /\ provider'.selectedPlanets = provider.selectedPlanets
       /\ provider'.lastConflict = provider.lastConflict
       /\ provider'.lastSelectAttemptRef = provider.lastSelectAttemptRef]_vars

\* C34 witness: a conflict for p2 was handled while the attempt on p1 was
\* outstanding: the user is still in the entry of p1, the attempt is still
\* p1 and no conflict is on display
C34_OtherPlanetIgnored ==
  /\ Delivered("conflict", received, lastOp, handlers, "unsubConflict")
  /\ received[2].planetId = "p2"
  /\ provider.lastSelectAttemptRef = "p1"
  /\ "p1" \in DOMAIN provider.selectedPlanets
  /\ Has(provider.selectedPlanets["p1"], user.id)
  /\ provider.lastConflict = NoConflict

\* C35: a conflict for a planet that the user selected optimistically, and
\* that was not unselected or answered since, takes the user out of the
\* local entry of that planet.
C35_RejectedIsRolledBack ==
  [][(/\ Delivered("conflict", received', lastOp', handlers, "unsubConflict")
      /\ user # NoUser
      /\ received'[2].planetId \in provider.optimistic) =>
       \/ received'[2].planetId \notin DOMAIN provider'.selectedPlanets
       \/ ~Has(provider'.selectedPlanets[received'[2].planetId], user.id)]_vars

\* C36: between tasks, the isConnected flag of a mounted RealtimeProvider is
\* true exactly when the current transport of its client is open.
C36_FlagMirrorsTransport ==
  provider.mounted =>
    (provider.isConnected <=> (ws # 0 /\ sockets[ws].readyState = "open"))

\* C37: a conflict for a planet that unselectPlanet was called for, with no
\* selectPlanet for that planet since, leaves lastConflict as it was.
C37_WithdrawnAttemptIgnored ==
  [][(/\ Delivered("conflict", received', lastOp', handlers, "unsubConflict")
      /\ user # NoUser
      /\ received'[2].planetId \in provider.withdrawn) =>
       provider'.lastConflict = provider.lastConflict]_vars

\* C38: every promise that calculateCorrelations returned settles, as long
\* as the hook is mounted.
C38_PromiseSettles ==
  \A id \in RequestIds :
    (correlation.promise[id] = "pending") ~>
      (correlation.promise[id] # "pending" \/ correlation.effect = "cleaned")

====
